---- MODULE Spec2Model ----
(***************************************************************************)
(* A model of the Data Cloud query service of data-cloud-inspector:        *)
(* src/src/lib/data-cloud-query-service.js (DataCloudQueryService,         *)
(* userEngagementQuery, unifiedB2BQuery).                                  *)
(*                                                                         *)
(* JavaScript values are tagged records, so that values of different       *)
(* types can be compared.  A JavaScript string is the sequence of its      *)
(* characters; a character is a one-character TLA+ string, except the four *)
(* control characters, which are written NUL, LF, CR and SUB.  A fixed SQL *)
(* fragment of the source that holds no quote is kept as one element of    *)
(* the sequence.                                                           *)
(***************************************************************************)
EXTENDS Integers, Sequences, FiniteSets, TLC

VARIABLES
  _dataCloudContext,  \* this._dataCloudContext: JNull, or Context(n) of the n-th authorize call
  calls,              \* caller -> the activation record of its call in flight
  authCount,          \* invocations of appLinkSdk.applink.getAuthorization so far
  started,            \* calls started on this instance so far
  lastResolved,       \* the value the most recently resolved authorize call resolved with (JNull: none yet)
  authFailed,         \* some authorize call so far was rejected or resolved with an empty value
  queryFailed,        \* some call so far has failed in its query or in its transform
  authRejected,       \* some authorize call so far was rejected
  callers,            \* the callers of this instance
  workload,           \* what the callers pass, what the store answers and how many calls are made
  fn,                 \* the pure function under study ("none" in the service specifications)
  arg,                \* its argument
  ret                 \* its result: NotApplied, then Applied(the value returned)

vars == <<_dataCloudContext, calls, authCount, started, lastResolved, authFailed,
          queryFailed, authRejected, callers, workload, fn, arg, ret>>

svcVars == <<_dataCloudContext, calls, authCount, started, lastResolved, authFailed,
             queryFailed, authRejected, callers, workload>>

pureVars == <<fn, arg, ret>>

(***************************************************************************)
(* Bounds of the model.                                                    *)
(***************************************************************************)
MaxLen == 3        \* longest filter string drawn
MaxCallers == 2    \* callers that may have a call in flight at the same time
MaxSharedCalls == 2  \* calls started on an instance that callers share
MaxCalls == 3      \* calls started on an instance with one caller
MaxParams == 2     \* most keys of a params object

(***************************************************************************)
(* JavaScript values.                                                      *)
(***************************************************************************)
JStr(s) == [t |-> "string", s |-> s]
JNum(n) == [t |-> "number", n |-> n]
JBool(b) == [t |-> "boolean", b |-> b]
JArr(a) == [t |-> "array", a |-> a]
JNull == [t |-> "null"]
JUndef == [t |-> "undefined"]
JObj(o) == [t |-> "object", o |-> o]

QUOTE == "'"
BACKSLASH == "\\"
NUL == "<NUL>"
LF == "<LF>"
CR == "<CR>"
SUB == "<SUB>"

\* The characters filter strings are drawn from: every character escapeSqlString
\* treats specially, the letters of its two-character escapes and a plain one.
Alphabet == {QUOTE, BACKSLASH, NUL, LF, CR, SUB, "n", "a"}

Strings(n) == UNION {[1..k -> Alphabet] : k \in 0..n}

\* value is falsy: the test of if (filters.accountName) and of response.data || []
Truthy(v) ==
  CASE v.t = "string" -> v.s # <<>>
    [] v.t = "number" -> v.n # 0
    [] v.t = "boolean" -> v.b
    [] v.t = "array" -> TRUE
    [] v.t = "object" -> TRUE
    [] v.t = "context" -> TRUE
    [] OTHER -> FALSE

Digit(d) == <<"0", "1", "2", "3", "4", "5", "6", "7", "8", "9">>[d + 1]

RECURSIVE Digits(_)
Digits(n) == IF n < 10 THEN <<Digit(n)>> ELSE Digits(n \div 10) \o <<Digit(n % 10)>>

RECURSIVE Join(_, _)
\* Array.prototype.join: the texts of seq with sep between them
Join(seq, sep) ==
  IF seq = <<>> THEN <<>>
  ELSE IF Len(seq) = 1 THEN seq[1]
  ELSE seq[1] \o sep \o Join(Tail(seq), sep)

\* String(value) of a value that is not a string; an array is the join of its
\* elements (strings here) with ","
String(v) ==
  CASE v.t = "string" -> v.s
    [] v.t = "number" -> Digits(v.n)
    [] v.t = "boolean" -> IF v.b THEN <<"t", "r", "u", "e">> ELSE <<"f", "a", "l", "s", "e">>
    [] v.t = "array" -> Join(v.a, <<",">>)
    [] v.t = "null" -> <<"n", "u", "l", "l">>
    [] v.t = "object" -> <<"[object Object]">>
    [] OTHER -> <<"u", "n", "d", "e", "f", "i", "n", "e", "d">>

RECURSIVE ReplaceAll(_, _, _)
\* s.replace(/c/g, rep): one pass over the whole string
ReplaceAll(s, c, rep) ==
  IF s = <<>> THEN <<>>
  ELSE (IF Head(s) = c THEN rep ELSE <<Head(s)>>) \o ReplaceAll(Tail(s), c, rep)

RECURSIVE ReplaceFirst(_, _, _)
\* s.replace(c, rep) with a string pattern: the first occurrence only
ReplaceFirst(s, c, rep) ==
  IF s = <<>> THEN <<>>
  ELSE IF Head(s) = c THEN rep \o Tail(s)
  ELSE <<Head(s)>> \o ReplaceFirst(Tail(s), c, rep)

\* A plausible slip: the backslash pass moved behind the passes that write backslashes
escapeSqlStringBackslashLast(value) ==
  IF value.t # "string" THEN String(value)
  ELSE LET s1 == ReplaceAll(value.s, QUOTE, <<QUOTE, QUOTE>>)
           s2 == ReplaceAll(s1, NUL, <<>>)
           s3 == ReplaceAll(s2, LF, <<BACKSLASH, "n">>)
           s4 == ReplaceAll(s3, CR, <<BACKSLASH, "r">>)
           s5 == ReplaceAll(s4, SUB, <<BACKSLASH, "Z">>)
       IN ReplaceAll(s5, BACKSLASH, <<BACKSLASH, BACKSLASH>>)

\* A plausible slip: the dangerous characters removed, none escaped
escapeSqlStringRemove(value) ==
  IF value.t # "string" THEN String(value)
  ELSE LET s1 == ReplaceAll(value.s, QUOTE, <<>>)
           s2 == ReplaceAll(s1, BACKSLASH, <<>>)
           s3 == ReplaceAll(s2, NUL, <<>>)
           s4 == ReplaceAll(s3, LF, <<>>)
           s5 == ReplaceAll(s4, CR, <<>>)
       IN ReplaceAll(s5, SUB, <<>>)

\* A plausible slip: the g flag left off the patterns, the first occurrence replaced only
escapeSqlStringFirstOnly(value) ==
  IF value.t # "string" THEN String(value)
  ELSE LET s1 == ReplaceFirst(value.s, QUOTE, <<QUOTE, QUOTE>>)
           s2 == ReplaceFirst(s1, BACKSLASH, <<BACKSLASH, BACKSLASH>>)
           s3 == ReplaceFirst(s2, NUL, <<>>)
           s4 == ReplaceFirst(s3, LF, <<BACKSLASH, "n">>)
           s5 == ReplaceFirst(s4, CR, <<BACKSLASH, "r">>)
       IN ReplaceFirst(s5, SUB, <<BACKSLASH, "Z">>)

\* unifiedB2BQuery.escapeSqlString
escapeSqlString(value) ==
  IF value.t # "string" THEN String(value)
  ELSE LET s1 == ReplaceAll(value.s, QUOTE, <<QUOTE, QUOTE>>)
           s2 == ReplaceAll(s1, BACKSLASH, <<BACKSLASH, BACKSLASH>>)
           s3 == ReplaceAll(s2, NUL, <<>>)
           s4 == ReplaceAll(s3, LF, <<BACKSLASH, "n">>)
           s5 == ReplaceAll(s4, CR, <<BACKSLASH, "r">>)
       IN ReplaceAll(s5, SUB, <<BACKSLASH, "Z">>)

(***************************************************************************)
(* Filter sets: a JavaScript object is JObj(o), o a function from its own  *)
(* keys to their values; a key it does not have reads as undefined.        *)
(***************************************************************************)
FilterKeys == {"accountName", "accountSource", "segment"}

Get(obj, key) == IF key \in DOMAIN obj.o THEN obj.o[key] ELSE JUndef

\* The values filters are drawn from: those of the cleanFilters tests (a string,
\* '', null, undefined, 0, false, ['item'], []) and values that hold a quote
SampleValues ==
  {JStr(<<"a">>), JStr(<<>>), JNull, JUndef, JNum(0), JNum(12), JBool(FALSE),
   JArr(<<<<"a">>>>), JArr(<<>>), JStr(<<"a", QUOTE>>), JArr(<<<<"a", QUOTE>>>>)}

FilterSets == {JObj(o) : o \in UNION {[K -> SampleValues] : K \in SUBSET FilterKeys}}

\* A plausible slip: the test for a value written as a truthiness test
cleanFiltersTruthy(filters) ==
  JObj([key \in {k \in DOMAIN filters.o : Truthy(filters.o[k])} |-> filters.o[key]])

\* A plausible slip: the test against null left out
cleanFiltersKeepNull(filters) ==
  JObj([key \in {k \in DOMAIN filters.o :
                   /\ filters.o[k] # JUndef
                   /\ filters.o[k] # JStr(<<>>)} |-> filters.o[key]])

\* DataCloudQueryService.cleanFilters
cleanFilters(filters) ==
  JObj([key \in {k \in DOMAIN filters.o :
                   /\ filters.o[k] # JUndef
                   /\ filters.o[k] # JNull
                   /\ filters.o[k] # JStr(<<>>)} |-> filters.o[key]])

\* A plausible slip: the entries without a value deleted from the object passed in
cleanFiltersInPlace(filters) ==
  [heap |-> <<cleanFilters(filters)>>, ref |-> 1]

\* A call of cleanFilters(filters): the caller's object is the first object of
\* the heap; `const cleanedFilters = {}` creates a second object, the loop writes
\* into that one only, and a reference to it is returned.
cleanFiltersCall(filters) ==
  [heap |-> <<filters, cleanFilters(filters)>>, ref |-> 2]

(***************************************************************************)
(* unifiedB2BQuery.                                                        *)
(***************************************************************************)
baseSql == "SELECT ssot__Name__c, ssot__Number__c, ssot__AccountSource__c, ssot__AccountTypeId__c, ssot__CreatedDate__c, ssot__LastModifiedDate__c, ssot__ParentAccountId__c, ssot__Id__c FROM UnifiedssotAccountB2b__dlm"

\* An object whose keys were inserted in the order keys: property reads go by
\* name, Object.entries goes by keys
JObjOrdered(o, keys) == [t |-> "object", o |-> o, keys |-> keys]

\* the orders in which the keys of K can have been inserted
Orders(K) ==
  {s \in [1..Cardinality(K) -> K] : \A i, j \in 1..Cardinality(K) : s[i] = s[j] => i = j}

\* filter sets with the three filters inserted in every order
OrderedFilterSets ==
  {JObjOrdered(o, keys) :
     o \in [FilterKeys -> {JStr(<<"a">>), JStr(<<>>), JStr(<<"a", QUOTE>>)}],
     keys \in Orders(FilterKeys)}

\* A plausible slip: the accountSource condition pushed before the accountName condition
whereConditionsSourceFirst(filters) ==
  (IF Truthy(Get(filters, "accountSource"))
   THEN <<<<"ssot__AccountSource__c = ", QUOTE>>
            \o escapeSqlString(Get(filters, "accountSource")) \o <<QUOTE>>>>
   ELSE <<>>)
  \o (IF Truthy(Get(filters, "accountName"))
      THEN <<<<"ssot__Name__c LIKE ", QUOTE, "%">>
               \o escapeSqlString(Get(filters, "accountName")) \o <<"%", QUOTE>>>>
      ELSE <<>>)
  \o (IF Truthy(Get(filters, "segment"))
      THEN <<<<"ssot__AccountTypeId__c = ", QUOTE>>
               \o escapeSqlString(Get(filters, "segment")) \o <<QUOTE>>>>
      ELSE <<>>)

\* A plausible slip: the test of the segment condition copied from the one above
whereConditionsSegmentOnSource(filters) ==
  (IF Truthy(Get(filters, "accountName"))
   THEN <<<<"ssot__Name__c LIKE ", QUOTE, "%">>
            \o escapeSqlString(Get(filters, "accountName")) \o <<"%", QUOTE>>>>
   ELSE <<>>)
  \o (IF Truthy(Get(filters, "accountSource"))
      THEN <<<<"ssot__AccountSource__c = ", QUOTE>>
               \o escapeSqlString(Get(filters, "accountSource")) \o <<QUOTE>>>>
      ELSE <<>>)
  \o (IF Truthy(Get(filters, "accountSource"))
      THEN <<<<"ssot__AccountTypeId__c = ", QUOTE>>
               \o escapeSqlString(Get(filters, "segment")) \o <<QUOTE>>>>
      ELSE <<>>)

\* whereConditions of buildQuery after its three if statements
whereConditions(filters) ==
  (IF Truthy(Get(filters, "accountName"))
   THEN <<<<"ssot__Name__c LIKE ", QUOTE, "%">>
            \o escapeSqlString(Get(filters, "accountName")) \o <<"%", QUOTE>>>>
   ELSE <<>>)
  \o (IF Truthy(Get(filters, "accountSource"))
      THEN <<<<"ssot__AccountSource__c = ", QUOTE>>
               \o escapeSqlString(Get(filters, "accountSource")) \o <<QUOTE>>>>
      ELSE <<>>)
  \o (IF Truthy(Get(filters, "segment"))
      THEN <<<<"ssot__AccountTypeId__c = ", QUOTE>>
               \o escapeSqlString(Get(filters, "segment")) \o <<QUOTE>>>>
      ELSE <<>>)

\* A plausible slip: the limit appended in the else branch of the WHERE test
buildQueryLimitWithoutWhere(filters) ==
  LET f == IF filters = JUndef THEN JObj(<<>>) ELSE filters
      conds == whereConditions(f)
  IN <<baseSql>>
       \o (IF Len(conds) > 0 THEN <<" WHERE ">> \o Join(conds, <<" AND ">>)
           ELSE <<" LIMIT 100">>)

\* unifiedB2BQuery.buildQuery; filters is a filter set, or JUndef for a call
\* without argument (the default parameter {} applies)
buildQuery(filters) ==
  LET f == IF filters = JUndef THEN JObj(<<>>) ELSE filters
      conds == whereConditions(f)
  IN <<baseSql>>
       \o (IF Len(conds) > 0 THEN <<" WHERE ">> \o Join(conds, <<" AND ">>) ELSE <<>>)
       \o <<" LIMIT 100">>

\* unifiedB2BQuery.transform: the named fields of each positional row; reading a
\* position of null throws, a position past the end of a row reads undefined
At(record, i) == IF i + 1 <= Len(record.a) THEN record.a[i + 1] ELSE JUndef

Ok(v) == [ok |-> TRUE, v |-> v]
Throw(m) == [ok |-> FALSE, message |-> m]

\* A plausible slip: the two date columns taken from each other's position
unifiedB2BTransformDatesSwapped(records) ==
  IF \E i \in 1..Len(records) : records[i].t \in {"null", "undefined"}
  THEN Throw("Cannot read properties of null (reading '0')")
  ELSE Ok([i \in 1..Len(records) |->
             [name |-> At(records[i], 0),
              number |-> At(records[i], 1),
              accountSource |-> At(records[i], 2),
              accountTypeId |-> At(records[i], 3),
              createdDate |-> At(records[i], 5),
              lastModifiedDate |-> At(records[i], 4),
              parentAccountId |-> At(records[i], 6),
              id |-> At(records[i], 7)]])

unifiedB2BTransform(records) ==
  IF \E i \in 1..Len(records) : records[i].t \in {"null", "undefined"}
  THEN Throw("Cannot read properties of null (reading '0')")
  ELSE Ok([i \in 1..Len(records) |->
             [name |-> At(records[i], 0),
              number |-> At(records[i], 1),
              accountSource |-> At(records[i], 2),
              accountTypeId |-> At(records[i], 3),
              createdDate |-> At(records[i], 4),
              lastModifiedDate |-> At(records[i], 5),
              parentAccountId |-> At(records[i], 6),
              id |-> At(records[i], 7)]])

(***************************************************************************)
(* userEngagementQuery.                                                    *)
(***************************************************************************)
userEngagementSql == "SELECT \n    ClientSession__c, \n    CreatedDate__c, \n    EntityType__c, \n    EventIdentifier__c, \n    EventName__c\n  FROM UserEngagement__dlm \n  LIMIT 100"

userEngagementTransform(records) ==
  IF \E i \in 1..Len(records) : records[i].t \in {"null", "undefined"}
  THEN Throw("Cannot read properties of null (reading '0')")
  ELSE Ok([i \in 1..Len(records) |->
             [clientSession |-> At(records[i], 0),
              createdDate |-> At(records[i], 1),
              entityType |-> At(records[i], 2),
              eventIdentifier |-> At(records[i], 3),
              eventName |-> At(records[i], 4)]])

(***************************************************************************)
(* The query objects of the tests, which a caller may pass as well.        *)
(***************************************************************************)
mockSql == "SELECT * FROM TestTable"

\* mockQueryObjectWithBuildQuery.buildQuery: no default parameter, reading
\* filters.name of undefined throws; the values are embedded as they are
mockBuildQuery(filters) ==
  IF filters = JUndef
  THEN Throw("Cannot read properties of undefined (reading 'name')")
  ELSE Ok(<<"SELECT * FROM TestTable WHERE 1=1">>
            \o (IF Truthy(Get(filters, "name"))
                THEN <<" AND Name = ", QUOTE>> \o String(Get(filters, "name")) \o <<QUOTE>>
                ELSE <<>>)
            \o (IF Truthy(Get(filters, "type"))
                THEN <<" AND Type = ", QUOTE>> \o String(Get(filters, "type")) \o <<QUOTE>>
                ELSE <<>>))

\* the mocks' transform: record.Id and record.Name, undefined on a positional row
mockTransform(records) ==
  IF \E i \in 1..Len(records) : records[i].t \in {"null", "undefined"}
  THEN Throw("Cannot read properties of null (reading 'Id')")
  ELSE Ok([i \in 1..Len(records) |-> [id |-> JUndef, name |-> JUndef]])

(***************************************************************************)
(* A query object: which buildQuery method it has ("none": it has none),   *)
(* its sql property (JUndef: it has none) and its transform method.        *)
(***************************************************************************)
unifiedB2BQuery ==
  [buildQuery |-> "unifiedB2BQuery", sql |-> JUndef, transform |-> "unifiedB2BQuery"]

userEngagementQuery ==
  [buildQuery |-> "none", sql |-> JStr(<<userEngagementSql>>), transform |-> "userEngagementQuery"]

mockQueryObject ==
  [buildQuery |-> "none", sql |-> JStr(<<mockSql>>), transform |-> "mock"]

mockQueryObjectWithBuildQuery ==
  [buildQuery |-> "mock", sql |-> JUndef, transform |-> "mock"]

\* an object with neither, and one with both
emptyQueryObject ==
  [buildQuery |-> "none", sql |-> JUndef, transform |-> "mock"]

bothQueryObject ==
  [buildQuery |-> "unifiedB2BQuery", sql |-> JStr(<<mockSql>>), transform |-> "unifiedB2BQuery"]

QueryObjects ==
  {unifiedB2BQuery, userEngagementQuery, mockQueryObject, mockQueryObjectWithBuildQuery,
   emptyQueryObject, bothQueryObject}

\* queryObject.buildQuery(filters)
CallBuildQuery(queryObject, filters) ==
  IF queryObject.buildQuery = "mock" THEN mockBuildQuery(filters) ELSE Ok(buildQuery(filters))

\* queryObject.transform(records), and a transformFn given by its name
CallTransform(transform, records) ==
  CASE transform = "unifiedB2BQuery" -> unifiedB2BTransform(records)
    [] transform = "userEngagementQuery" -> userEngagementTransform(records)
    [] OTHER -> mockTransform(records)

(***************************************************************************)
(* DataCloudQueryService.  One call is an activation record; an action is  *)
(* one run of a method between two awaits.  The reactions of settled       *)
(* promises run in the order the promises settled, so a settlement and the *)
(* run it resumes are one step.                                            *)
(***************************************************************************)
Context(n) == [t |-> "context", id |-> n]

Idle ==
  [pc |-> "idle", method |-> "none", queryObject |-> emptyQueryObject,
   rawFilters |-> JUndef, filters |-> JUndef, sql |-> JUndef, transformFn |-> "none",
   authNo |-> 0, dataCloudContext |-> JUndef, query |-> JUndef, sent |-> JUndef,
   response |-> JUndef, trace |-> <<>>, outcome |-> [kind |-> "none"]]

Returned(v) == [kind |-> "returned", value |-> v]
Rejected(m) == [kind |-> "rejected", message |-> m]

\* A plausible slip: the sql property looked at before the buildQuery method
ResolveQuerySqlFirst(queryObject, filters) ==
  IF Truthy(queryObject.sql) THEN Ok(queryObject.sql.s)
  ELSE IF queryObject.buildQuery # "none" THEN CallBuildQuery(queryObject, filters)
  ELSE Throw("Query object must have either sql property or buildQuery method")

\* A plausible slip: the final else left out, the query left undefined and sent
ResolveQueryWithoutElse(queryObject, filters) ==
  IF queryObject.buildQuery # "none" THEN CallBuildQuery(queryObject, filters)
  ELSE IF Truthy(queryObject.sql) THEN Ok(queryObject.sql.s)
  ELSE Ok(<<"undefined">>)

\* lines 46-56 of executeQuery: the SQL to execute, or the error thrown
ResolveQuery(queryObject, filters) ==
  IF queryObject.buildQuery # "none" THEN CallBuildQuery(queryObject, filters)
  ELSE IF Truthy(queryObject.sql) THEN Ok(queryObject.sql.s)
  ELSE Throw("Query object must have either sql property or buildQuery method")

\* A plausible slip: the sql property looked at before the buildQuery method
FallbackQuerySqlFirst(queryObject) ==
  IF Truthy(queryObject.sql) THEN queryObject.sql
  ELSE IF queryObject.buildQuery # "none"
  THEN LET built == CallBuildQuery(queryObject, JUndef)
       IN IF built.ok THEN JStr(built.v) ELSE JStr(<<"Query build failed">>)
  ELSE JUndef

\* lines 78-88 of executeQuery: the fallback query of the error response
FallbackQuery(queryObject) ==
  IF queryObject.buildQuery # "none"
  THEN LET built == CallBuildQuery(queryObject, JUndef)
       IN IF built.ok THEN JStr(built.v) ELSE JStr(<<"Query build failed">>)
  ELSE IF Truthy(queryObject.sql) THEN queryObject.sql
  ELSE JUndef

\* A plausible slip: the error rethrown to the caller instead of being returned
ExecuteQueryCatchRethrow(rec, message) ==
  [rec EXCEPT !.pc = "done",
              !.trace = @ \o <<"logger.error">>,
              !.outcome = Rejected(message)]

\* A plausible slip: the query of the try block reported in place of the fallback query
ExecuteQueryCatchReportsQuery(rec, message) ==
  [rec EXCEPT !.pc = "done",
              !.trace = @ \o <<"logger.error">>,
              !.outcome = Returned([success |-> FALSE,
                                    error |-> "Failed to execute Data Cloud query",
                                    message |-> message,
                                    query |-> rec.query,
                                    filters |-> rec.filters])]

\* the catch block of executeQuery, lines 74-97
ExecuteQueryCatch(rec, message) ==
  [rec EXCEPT !.pc = "done",
              !.trace = @ \o <<"logger.error">>,
              !.outcome = Returned([success |-> FALSE,
                                    error |-> "Failed to execute Data Cloud query",
                                    message |-> message,
                                    query |-> FallbackQuery(rec.queryObject),
                                    filters |-> rec.filters])]

\* A plausible slip: the error response given an empty records list as well
ExecuteRawQueryCatchWithRecords(rec, message) ==
  [rec EXCEPT !.pc = "done",
              !.trace = @ \o <<"logger.error">>,
              !.outcome = Returned([success |-> FALSE,
                                    records |-> <<>>,
                                    error |-> "Failed to execute raw Data Cloud query",
                                    message |-> message,
                                    query |-> rec.sql])]

\* the catch block of executeRawQuery, lines 129-138
ExecuteRawQueryCatch(rec, message) ==
  [rec EXCEPT !.pc = "done",
              !.trace = @ \o <<"logger.error">>,
              !.outcome = Returned([success |-> FALSE,
                                    error |-> "Failed to execute raw Data Cloud query",
                                    message |-> message,
                                    query |-> rec.sql])]

\* A plausible slip: the metadata built as the catch block builds its response
ExecuteQuerySuccessFallbackQuery(rec, transformedRecords) ==
  [success |-> TRUE,
   records |-> transformedRecords,
   metadata |-> [totalRecords |-> Len(transformedRecords),
                 query |-> FallbackQuery(rec.queryObject),
                 filters |-> rec.filters,
                 executedAt |-> "now"]]

\* the response of executeQuery, lines 64-73
ExecuteQuerySuccess(rec, transformedRecords) ==
  [success |-> TRUE,
   records |-> transformedRecords,
   metadata |-> [totalRecords |-> Len(transformedRecords),
                 query |-> rec.query,
                 filters |-> rec.filters,
                 executedAt |-> "now"]]

\* A plausible slip: the metadata copied from executeQuery, filters key included
ExecuteRawQuerySuccessWithFilters(rec, records) ==
  [success |-> TRUE,
   records |-> records,
   metadata |-> [totalRecords |-> Len(records),
                 query |-> rec.sql,
                 filters |-> JObj(<<>>),
                 executedAt |-> "now"]]

\* the response of executeRawQuery, lines 120-128
ExecuteRawQuerySuccess(rec, records) ==
  [success |-> TRUE,
   records |-> records,
   metadata |-> [totalRecords |-> Len(records),
                 query |-> rec.sql,
                 executedAt |-> "now"]]

Catch(rec, message) ==
  IF rec.method = "executeRawQuery" THEN ExecuteRawQueryCatch(rec, message)
  ELSE ExecuteQueryCatch(rec, message)

\* A plausible slip: the query logged after it has been sent
InvokeQueryThenLog(rec, context, query) ==
  IF context.t # "context"
  THEN Catch([rec EXCEPT !.dataCloudContext = context, !.query = JStr(query)],
             "Cannot read properties of null (reading 'dataCloudApi')")
  ELSE [rec EXCEPT !.pc = "awaitQuery",
                   !.dataCloudContext = context,
                   !.query = JStr(query),
                   !.sent = JStr(query),
                   !.trace = @ \o <<"query", "logger.info:query">>]

\* A plausible slip: the query raced against a timer that ends the call
InvokeQueryWithTimeout(rec, context, query) ==
  IF context.t # "context"
  THEN Catch([rec EXCEPT !.dataCloudContext = context,
                         !.query = JStr(query),
                         !.trace = @ \o <<"logger.info:query">>],
             "Cannot read properties of null (reading 'dataCloudApi')")
  ELSE Catch([rec EXCEPT !.dataCloudContext = context,
                         !.query = JStr(query),
                         !.sent = JStr(query),
                         !.trace = @ \o <<"logger.info:query", "query">>],
             "Query timed out")

\* dataCloudContext.dataCloudApi.query(query): reading dataCloudApi of an empty
\* context throws before the external call is made
InvokeQuery(rec, context, query) ==
  IF context.t # "context"
  THEN Catch([rec EXCEPT !.dataCloudContext = context,
                         !.query = JStr(query),
                         !.trace = @ \o <<"logger.info:query">>],
             "Cannot read properties of null (reading 'dataCloudApi')")
  ELSE [rec EXCEPT !.pc = "awaitQuery",
                   !.dataCloudContext = context,
                   !.query = JStr(query),
                   !.sent = JStr(query),
                   !.trace = @ \o <<"logger.info:query", "query">>]

\* the run of a method from the settlement of await this.getDataCloudContext()
\* to its next await or its end; got is Ok(context) or Throw(message)
AfterContext(rec, got) ==
  CASE rec.method = "getDataCloudContext" ->
         [rec EXCEPT !.pc = "done",
                     !.outcome = IF got.ok THEN Returned(got.v) ELSE Rejected(got.message)]
    [] rec.method = "executeRawQuery" ->
         IF got.ok THEN InvokeQuery(rec, got.v, rec.sql.s) ELSE Catch(rec, got.message)
    [] OTHER ->
         IF ~got.ok THEN Catch(rec, got.message)
         ELSE LET resolved == ResolveQuery(rec.queryObject, rec.filters)
                  traced == [rec EXCEPT !.trace = @ \o <<"resolveQuery">>]
              IN IF resolved.ok THEN InvokeQuery(traced, got.v, resolved.v)
                 ELSE Catch([traced EXCEPT !.dataCloudContext = got.v], resolved.message)

\* the run of a method from the resolution of its query to its end; response is
\* the value query resolved with
AfterQuery(rec, response) ==
  LET data == IF Truthy(response.data) THEN response.data.a ELSE <<>>
      transformed ==
        IF rec.method = "executeRawQuery"
        THEN (IF rec.transformFn # "none" THEN CallTransform(rec.transformFn, data) ELSE Ok(data))
        ELSE CallTransform(rec.queryObject.transform, data)
      traced == [rec EXCEPT !.response = response,
                            !.trace = @ \o (IF rec.method = "executeRawQuery" /\ rec.transformFn = "none"
                                            THEN <<>> ELSE <<"transform">>)]
  IN IF ~transformed.ok THEN Catch(traced, transformed.message)
     ELSE [traced EXCEPT
             !.pc = "done",
             !.outcome = Returned(IF rec.method = "executeRawQuery"
                                  THEN ExecuteRawQuerySuccess(rec, transformed.v)
                                  ELSE ExecuteQuerySuccess(rec, transformed.v))]

(***************************************************************************)
(* What the callers pass and what the external calls answer.               *)
(***************************************************************************)
rowA ==
  JArr(<<JStr(<<"A">>), JStr(<<"1">>), JStr(<<"Web">>), JStr(<<"T1">>),
         JStr(<<"d1">>), JStr(<<"d2">>), JStr(<<"P1">>), JStr(<<"ID1">>)>>)

rowB ==
  JArr(<<JStr(<<"s">>), JStr(<<"d">>), JStr(<<"e">>), JStr(<<"i">>), JStr(<<"n">>)>>)

\* the responses of dataCloudApi.query: no data, no row, rows, a row that is null,
\* and a row followed by one that is null
Responses ==
  {[data |-> JUndef], [data |-> JArr(<<>>)], [data |-> JArr(<<rowA>>)],
   [data |-> JArr(<<rowA, rowB>>)], [data |-> JArr(<<JNull>>)],
   [data |-> JArr(<<rowA, JNull>>)]}

QueryErrorMessage == "boom"
AuthorizationErrorMessage == "authorization failed"

\* the filter sets the callers of the service pass
ServiceFilterSets ==
  {JObj(<<>>),
   JObj([accountName |-> JStr(<<"a", QUOTE>>)]),
   JObj([accountName |-> JStr(<<"a">>), accountSource |-> JStr(<<>>), segment |-> JNull]),
   JObj([accountSource |-> JNum(0), segment |-> JArr(<<<<"a", QUOTE>>>>)])}

FullWorkload ==
  [queryObjects |-> QueryObjects,
   filterSets |-> ServiceFilterSets,
   sqls |-> {<<mockSql>>},
   transformFns |-> {"none", "userEngagementQuery"},
   responses |-> Responses,
   maxCalls |-> MaxCalls]

\* the workload of the callers that share one instance
SharedWorkload ==
  [queryObjects |-> {unifiedB2BQuery},
   filterSets |-> {JObj([accountName |-> JStr(<<"a">>)])},
   sqls |-> {<<mockSql>>},
   transformFns |-> {"none"},
   responses |-> {[data |-> JArr(<<rowA>>)]},
   maxCalls |-> MaxSharedCalls]

(***************************************************************************)
(* getDataCloudContext, lines 22-32.                                       *)
(***************************************************************************)
\* A plausible slip: the cache never consulted
CacheMissAlways(cached) == TRUE

\* line 23: !this._dataCloudContext
CacheMiss(cached) == ~Truthy(cached)

\* A plausible slip: a context once cached is kept
StoreContextKeepFirst(cached, resolved) == IF Truthy(cached) THEN cached ELSE resolved

\* line 27: the assignment of the awaited value to this._dataCloudContext
StoreContext(cached, resolved) == resolved

\* the start of a call up to its first await: the cache check, and on a miss the
\* log and the authorize call; on a hit the method goes on with the cached context
Enter(p, rec) ==
  /\ p \in callers
  /\ calls[p].pc = "idle"
  /\ started < workload.maxCalls
  /\ started' = started + 1
  /\ IF CacheMiss(_dataCloudContext)
     THEN /\ authCount' = authCount + 1
          /\ calls' = [calls EXCEPT ![p] =
                         [rec EXCEPT !.pc = "awaitAuth",
                                     !.authNo = authCount + 1,
                                     !.trace = <<"logger.info:connection", "getAuthorization">>]]
     ELSE /\ authCount' = authCount
          /\ calls' = [calls EXCEPT ![p] = AfterContext(rec, Ok(_dataCloudContext))]
  /\ UNCHANGED <<_dataCloudContext, lastResolved, authFailed, queryFailed, authRejected,
                 callers, workload, pureVars>>

getDataCloudContext(p) ==
  Enter(p, [Idle EXCEPT !.method = "getDataCloudContext"])

executeQuery(p) ==
  \E queryObject \in workload.queryObjects, filters \in workload.filterSets :
    Enter(p, [Idle EXCEPT !.method = "executeQuery",
                          !.queryObject = queryObject,
                          !.rawFilters = filters,
                          !.filters = filters])

\* A plausible slip: the raw filters passed on to executeQuery
executeQueryWithFiltersRaw(p) ==
  \E queryObject \in workload.queryObjects, rawFilters \in workload.filterSets :
    Enter(p, [Idle EXCEPT !.method = "executeQueryWithFilters",
                          !.queryObject = queryObject,
                          !.rawFilters = rawFilters,
                          !.filters = rawFilters])

executeQueryWithFilters(p) ==
  \E queryObject \in workload.queryObjects, rawFilters \in workload.filterSets :
    Enter(p, [Idle EXCEPT !.method = "executeQueryWithFilters",
                          !.queryObject = queryObject,
                          !.rawFilters = rawFilters,
                          !.filters = cleanFilters(rawFilters)])

executeRawQuery(p) ==
  \E sql \in workload.sqls, transformFn \in workload.transformFns :
    Enter(p, [Idle EXCEPT !.method = "executeRawQuery",
                          !.sql = JStr(sql),
                          !.transformFn = transformFn])

\* the authorize call of p resolves with its context or with an empty value
AuthorizationResolves(p) ==
  /\ p \in callers
  /\ calls[p].pc = "awaitAuth"
  /\ \E resolved \in {Context(calls[p].authNo), JNull} :
       /\ _dataCloudContext' = StoreContext(_dataCloudContext, resolved)
       /\ lastResolved' = resolved
       /\ authFailed' = (authFailed \/ resolved = JNull)
       /\ calls' = [calls EXCEPT ![p] =
                      AfterContext([@ EXCEPT !.trace = @ \o <<"getAuthorization:resolved">>],
                                   Ok(_dataCloudContext'))]
  /\ UNCHANGED <<authCount, started, queryFailed, authRejected, callers, workload, pureVars>>

\* A plausible slip: the promise of getAuthorization stored before it is awaited,
\* so that a rejected one stays in the slot
AuthorizationRejectsCached(p) ==
  /\ p \in callers
  /\ calls[p].pc = "awaitAuth"
  /\ authFailed' = TRUE
  /\ authRejected' = TRUE
  /\ _dataCloudContext' = JObj([rejected |-> JStr(<<>>)])
  /\ calls' = [calls EXCEPT ![p] =
                 AfterContext([@ EXCEPT !.trace = @ \o <<"getAuthorization:rejected">>],
                              Throw(AuthorizationErrorMessage))]
  /\ UNCHANGED <<lastResolved, authCount, started, queryFailed, callers, workload, pureVars>>

\* the authorize call of p rejects: the assignment of line 27 does not happen
AuthorizationRejects(p) ==
  /\ p \in callers
  /\ calls[p].pc = "awaitAuth"
  /\ authFailed' = TRUE
  /\ authRejected' = TRUE
  /\ calls' = [calls EXCEPT ![p] =
                 AfterContext([@ EXCEPT !.trace = @ \o <<"getAuthorization:rejected">>],
                              Throw(AuthorizationErrorMessage))]
  /\ UNCHANGED <<_dataCloudContext, lastResolved, authCount, started, queryFailed, callers,
                 workload, pureVars>>

QueryResolves(p) ==
  /\ p \in callers
  /\ calls[p].pc = "awaitQuery"
  /\ \E response \in workload.responses :
       LET finished == AfterQuery([calls[p] EXCEPT !.trace = @ \o <<"query:resolved">>],
                                  response)
       IN /\ calls' = [calls EXCEPT ![p] = finished]
          /\ queryFailed' = (queryFailed \/ ~finished.outcome.value.success)
  /\ UNCHANGED <<_dataCloudContext, lastResolved, authFailed, authRejected, authCount,
                 started, callers, workload, pureVars>>

\* A plausible slip: a query that rejected is sent once more
QueryRejectsRetry(p) ==
  /\ p \in callers
  /\ calls[p].pc = "awaitQuery"
  /\ calls' = [calls EXCEPT ![p] =
                 IF \E i \in 1..Len(@.trace) : @.trace[i] = "query:rejected"
                 THEN Catch([@ EXCEPT !.trace = @ \o <<"query:rejected">>], QueryErrorMessage)
                 ELSE [@ EXCEPT !.trace = @ \o <<"query:rejected", "query">>]]
  /\ queryFailed' = TRUE
  /\ UNCHANGED <<_dataCloudContext, lastResolved, authFailed, authRejected, authCount,
                 started, callers, workload, pureVars>>

\* A plausible slip: the context dropped when a query fails, as if the failure
\* had invalidated the connection
QueryRejectsDropsContext(p) ==
  /\ p \in callers
  /\ calls[p].pc = "awaitQuery"
  /\ calls' = [calls EXCEPT ![p] =
                 Catch([@ EXCEPT !.trace = @ \o <<"query:rejected">>], QueryErrorMessage)]
  /\ queryFailed' = TRUE
  /\ _dataCloudContext' = JNull
  /\ UNCHANGED <<lastResolved, authFailed, authRejected, authCount, started, callers,
                 workload, pureVars>>

QueryRejects(p) ==
  /\ p \in callers
  /\ calls[p].pc = "awaitQuery"
  /\ calls' = [calls EXCEPT ![p] =
                 Catch([@ EXCEPT !.trace = @ \o <<"query:rejected">>], QueryErrorMessage)]
  /\ queryFailed' = TRUE
  /\ UNCHANGED <<_dataCloudContext, lastResolved, authFailed, authRejected, authCount,
                 started, callers, workload, pureVars>>

\* the caller takes the result of its call
Return(p) ==
  /\ p \in callers
  /\ calls[p].pc = "done"
  /\ calls' = [calls EXCEPT ![p] = Idle]
  /\ UNCHANGED <<_dataCloudContext, lastResolved, authFailed, authRejected, authCount,
                 started, queryFailed, callers, workload, pureVars>>

NotApplied == [done |-> FALSE]
Applied(v) == [done |-> TRUE, v |-> v]

PureIdle == fn = "none" /\ arg = JUndef /\ ret = NotApplied

\* the instance after its constructor, lines 9-14
Constructed ==
  /\ _dataCloudContext = JNull
  /\ authCount = 0
  /\ started = 0
  /\ lastResolved = JNull
  /\ authFailed = FALSE
  /\ queryFailed = FALSE
  /\ authRejected = FALSE

\* one instance shared by MaxCallers callers
Init ==
  /\ Constructed
  /\ callers = 1..MaxCallers
  /\ calls = [p \in callers |-> Idle]
  /\ workload = SharedWorkload
  /\ PureIdle

\* one instance with one caller, whose calls follow each other
InitCall ==
  /\ Constructed
  /\ callers = {1}
  /\ calls = [p \in callers |-> Idle]
  /\ workload = FullWorkload
  /\ PureIdle

Next ==
  \E p \in 1..MaxCallers :
    \/ getDataCloudContext(p)
    \/ executeQuery(p)
    \/ executeQueryWithFilters(p)
    \/ executeRawQuery(p)
    \/ AuthorizationResolves(p)
    \/ AuthorizationRejects(p)
    \/ QueryResolves(p)
    \/ QueryRejects(p)
    \/ Return(p)

Spec == Init /\ [][Next]_vars

SpecCall == InitCall /\ [][Next]_vars

\* Every external call settles: a pending promise of getAuthorization or of
\* dataCloudApi.query is resolved or rejected at some time, and the event loop
\* then runs the continuation of the call that awaits it.
ExternalCallsSettle ==
  \A p \in 1..MaxCallers :
    /\ WF_vars(AuthorizationRejects(p) \/ AuthorizationResolves(p))
    /\ WF_vars(QueryRejects(p) \/ QueryResolves(p))

SpecSettling == InitCall /\ [][Next]_vars /\ ExternalCallsSettle

(***************************************************************************)
(* The pure functions, each applied to an argument drawn at the start.     *)
(***************************************************************************)
\* values that are not strings, as escapeSqlString may be given
NonStrings ==
  {JNum(0), JNum(123), JBool(TRUE), JBool(FALSE), JNull, JUndef, JArr(<<>>),
   JArr(<<<<"a", QUOTE>>>>), JArr(<<<<"a">>, <<BACKSLASH>>>>)}

(***************************************************************************)
(* DataCloudQueryService.buildQueryParams, lines 182-193.                  *)
(***************************************************************************)
SURROGATE == "<D800>"

\* the keys of the params objects: two names and two array indices
ParamKeys == {"p", "q", "1", "2"}

\* the array index a key is, -1 for a key that is none
IndexOf(key) ==
  CASE key = "1" -> 1
    [] key = "2" -> 2
    [] OTHER -> -1

RECURSIVE Ascending(_)
Ascending(K) ==
  IF K = {} THEN <<>>
  ELSE LET least == CHOOSE k \in K : \A j \in K : IndexOf(k) <= IndexOf(j)
       IN <<least>> \o Ascending(K \ {least})

\* Object.entries(obj): the keys that are array indices in ascending order, then
\* the other keys in the order of their insertion
ObjectEntries(obj) ==
  LET IsName(key) == IndexOf(key) < 0
      indices == {obj.keys[i] : i \in {j \in 1..Len(obj.keys) : ~IsName(obj.keys[j])}}
      ordered == Ascending(indices) \o SelectSeq(obj.keys, IsName)
  IN [i \in 1..Len(ordered) |-> [key |-> ordered[i], value |-> obj.o[ordered[i]]]]

\* what encodeURIComponent writes for one character: the unreserved characters
\* stay, the others become the %XX of their UTF-8 bytes
EncodedChar(c) ==
  CASE c = " " -> <<"%", "2", "0">>
    [] c = "&" -> <<"%", "2", "6">>
    [] c = "=" -> <<"%", "3", "D">>
    [] c = "<E9>" -> <<"%", "C", "3", "%", "A", "9">>
    [] OTHER -> <<c>>

RECURSIVE EncodedChars(_)
EncodedChars(s) == IF s = <<>> THEN <<>> ELSE EncodedChar(Head(s)) \o EncodedChars(Tail(s))

\* encodeURIComponent(value): of the string value is coerced to; a surrogate
\* without its pair makes it throw
encodeURIComponent(value) ==
  LET s == String(value)
  IN IF \E i \in 1..Len(s) : s[i] = SURROGATE THEN Throw("URI malformed")
     ELSE Ok(EncodedChars(s))

\* A plausible slip: the test for a value written as the truthiness test the
\* comment of the method speaks of
buildQueryParamsTruthy(params, baseParams) ==
  LET base == IF baseParams = JUndef THEN <<>> ELSE baseParams.a
      Kept(entry) == Truthy(entry.value)
      kept == SelectSeq(ObjectEntries(params), Kept)
      encoded == [i \in 1..Len(kept) |-> encodeURIComponent(kept[i].value)]
  IN IF \E i \in 1..Len(kept) : ~encoded[i].ok THEN Throw("URI malformed")
     ELSE Ok(Join(base \o [i \in 1..Len(kept) |-> <<kept[i].key, "=">> \o encoded[i].v],
                  <<"&">>))

\* buildQueryParams(params, baseParams); baseParams is JUndef for a call without
\* it (the default parameter [] applies)
buildQueryParams(params, baseParams) ==
  LET base == IF baseParams = JUndef THEN <<>> ELSE baseParams.a
      Kept(entry) == entry.value \notin {JUndef, JNull, JStr(<<>>)}
      kept == SelectSeq(ObjectEntries(params), Kept)
      encoded == [i \in 1..Len(kept) |-> encodeURIComponent(kept[i].value)]
  IN IF \E i \in 1..Len(kept) : ~encoded[i].ok THEN Throw("URI malformed")
     ELSE Ok(Join(base \o [i \in 1..Len(kept) |-> <<kept[i].key, "=">> \o encoded[i].v],
                  <<"&">>))

\* the values of the params: those of the tests (text with a space, symbols and
\* an accent, '', null, undefined), 0 and a surrogate without its pair
ParamValues ==
  {JStr(<<"a", " ", "&", "!", "<E9>", "=">>), JStr(<<>>), JNull, JUndef, JNum(0),
   JStr(<<SURROGATE>>)}

ParamObjects ==
  UNION {{JObjOrdered(o, keys) : o \in [K -> ParamValues], keys \in Orders(K)} :
           K \in {S \in SUBSET ParamKeys : Cardinality(S) <= MaxParams}}

BaseParamLists ==
  {JUndef, JArr(<<>>), JArr(<<<<"entityType=DataModelObject">>, <<"base=param">>>>)}

\* the rows the transform methods are given: rows in the SELECT order of either
\* query, a row with one column only, and a row that is null
rowShort == JArr(<<JStr(<<"x">>)>>)

TransformRows == {rowA, rowB, rowShort, JNull}

RowLists(n) == UNION {[1..k -> TransformRows] : k \in 0..n}

TransformNames == {"unifiedB2BQuery", "userEngagementQuery"}

InitPure ==
  /\ Constructed
  /\ callers = {}
  /\ calls = [p \in callers |-> Idle]
  /\ workload = FullWorkload
  /\ ret = NotApplied
  /\ \/ fn = "escapeSqlString" /\ arg \in {JStr(s) : s \in Strings(MaxLen)} \cup NonStrings
     \/ fn = "buildQuery" /\ arg \in FilterSets \cup OrderedFilterSets \cup {JUndef}
     \/ fn = "cleanFilters" /\ arg \in FilterSets
     \/ fn \in TransformNames /\ arg \in {JArr(rows) : rows \in RowLists(MaxLen)}
     \/ /\ fn = "buildQueryParams"
        /\ arg \in {[t |-> "arguments", params |-> params, baseParams |-> baseParams] :
                      params \in ParamObjects, baseParams \in BaseParamLists}

ApplyEscapeSqlString ==
  /\ fn = "escapeSqlString"
  /\ ~ret.done
  /\ ret' = Applied(escapeSqlString(arg))
  /\ UNCHANGED <<svcVars, fn, arg>>

\* escapeSqlString applied to the string it returned
ApplyEscapeSqlStringAgain ==
  /\ fn = "escapeSqlString"
  /\ ret.done
  /\ "again" \notin DOMAIN ret
  /\ ret' = [done |-> TRUE, v |-> ret.v, again |-> escapeSqlString(JStr(ret.v))]
  /\ UNCHANGED <<svcVars, fn, arg>>

ApplyBuildQuery ==
  /\ fn = "buildQuery"
  /\ ~ret.done
  /\ ret' = Applied(buildQuery(arg))
  /\ UNCHANGED <<svcVars, fn, arg>>

ApplyCleanFilters ==
  /\ fn = "cleanFilters"
  /\ ~ret.done
  /\ LET call == cleanFiltersCall(arg)
     IN ret' = [done |-> TRUE, v |-> call.heap[call.ref], heap |-> call.heap, ref |-> call.ref]
  /\ UNCHANGED <<svcVars, fn, arg>>

\* unifiedB2BQuery.transform(rows) and userEngagementQuery.transform(rows)
ApplyTransform ==
  /\ fn \in TransformNames
  /\ ~ret.done
  /\ ret' = Applied(CallTransform(fn, arg.a))
  /\ UNCHANGED <<svcVars, fn, arg>>

ApplyBuildQueryParams ==
  /\ fn = "buildQueryParams"
  /\ ~ret.done
  /\ ret' = Applied(buildQueryParams(arg.params, arg.baseParams))
  /\ UNCHANGED <<svcVars, fn, arg>>

NextPure ==
  \/ ApplyEscapeSqlString
  \/ ApplyEscapeSqlStringAgain
  \/ ApplyBuildQuery
  \/ ApplyCleanFilters
  \/ ApplyTransform
  \/ ApplyBuildQueryParams

SpecPure == InitPure /\ [][NextPure]_vars

(***************************************************************************)
(* Properties of the pure functions.                                       *)
(***************************************************************************)
Rest(s, n) == SubSeq(s, n + 1, Len(s))

RECURSIVE WellEscaped(_)
\* s reads as a sequence of '' pairs, of the escapes \\ \n \r \Z and of characters
\* that are neither a quote, a backslash nor one of the four control characters
WellEscaped(s) ==
  IF s = <<>> THEN TRUE
  ELSE IF Head(s) = QUOTE
       THEN Len(s) >= 2 /\ s[2] = QUOTE /\ WellEscaped(Rest(s, 2))
  ELSE IF Head(s) = BACKSLASH
       THEN Len(s) >= 2 /\ s[2] \in {BACKSLASH, "n", "r", "Z"} /\ WellEscaped(Rest(s, 2))
  ELSE Head(s) \notin {NUL, LF, CR, SUB} /\ WellEscaped(Tail(s))

RECURSIVE Lex(_, _)
\* the SQL text s read by a lexer: what lies outside the quoted literals, each
\* literal replaced by "?"; within a literal '' is a quote and ' alone ends it
Lex(s, inLiteral) ==
  IF s = <<>> THEN (IF inLiteral THEN <<"<unterminated>">> ELSE <<>>)
  ELSE IF ~inLiteral
       THEN (IF Head(s) = QUOTE THEN Lex(Tail(s), TRUE) ELSE <<Head(s)>> \o Lex(Tail(s), FALSE))
  ELSE IF Head(s) # QUOTE THEN Lex(Tail(s), TRUE)
  ELSE IF Len(s) >= 2 /\ s[2] = QUOTE THEN Lex(Rest(s, 2), TRUE)
  ELSE <<"?">> \o Lex(Tail(s), FALSE)

\* what a lexer is meant to read in buildQuery(filters): one literal for each
\* filter that is present, and nothing of the values outside the literals
IntendedSkeleton(filters) ==
  LET present(key) == filters # JUndef /\ Truthy(Get(filters, key))
      conds == (IF present("accountName") THEN <<<<"ssot__Name__c LIKE ", "?">>>> ELSE <<>>)
               \o (IF present("accountSource") THEN <<<<"ssot__AccountSource__c = ", "?">>>> ELSE <<>>)
               \o (IF present("segment") THEN <<<<"ssot__AccountTypeId__c = ", "?">>>> ELSE <<>>)
  IN <<baseSql>>
       \o (IF conds # <<>> THEN <<" WHERE ">> \o Join(conds, <<" AND ">>) ELSE <<>>)
       \o <<" LIMIT 100">>

\* C8: cleanFilters keeps a key/value pair of its input if and only if the value
\* is not undefined, not null and not ''; the pairs kept (0, false, arrays, ...)
\* keep their values, and the result has no key the input has not.
C8_CleanFiltersKeepsExactlyPresent ==
  (fn = "cleanFilters" /\ ret.done) =>
    /\ ret.v.t = "object"
    /\ DOMAIN ret.v.o \subseteq DOMAIN arg.o
    /\ \A key \in DOMAIN arg.o :
         /\ key \in DOMAIN ret.v.o <=> arg.o[key] \notin {JUndef, JNull, JStr(<<>>)}
         /\ key \in DOMAIN ret.v.o => ret.v.o[key] = arg.o[key]

C8_Witness ==
  /\ fn = "cleanFilters"
  /\ arg = JObj([accountName |-> JNum(0), accountSource |-> JNull, segment |-> JArr(<<>>)])
  /\ ret.done
  /\ ret.v = JObj([accountName |-> JNum(0), segment |-> JArr(<<>>)])

\* C9: in the query buildQuery returns, the value of every present filter, of
\* any type, stays within its quoted literal: a lexer reads one literal for each
\* present filter and nothing else of the values (no quote of a value is left
\* undoubled).
C9_BuildQueryValuesStayInLiterals ==
  (fn = "buildQuery" /\ ret.done) => Lex(ret.v, FALSE) = IntendedSkeleton(arg)

\* C10: the result of escapeSqlString on a string holds no NUL, LF, CR or SUB,
\* no quote outside a doubled pair and no backslash outside \\ \n \r \Z.
C10_EscapedStringIsWellEscaped ==
  (fn = "escapeSqlString" /\ arg.t = "string" /\ ret.done) => WellEscaped(ret.v)

C10_Witness ==
  /\ fn = "escapeSqlString"
  /\ arg = JStr(<<BACKSLASH, LF, QUOTE>>)
  /\ ret.done
  /\ ret.v = <<BACKSLASH, BACKSLASH, BACKSLASH, "n", QUOTE, QUOTE>>

(***************************************************************************)
(* Properties of the service.                                              *)
(***************************************************************************)
IsExecuteQuery(rec) == rec.method \in {"executeQuery", "executeQueryWithFilters"}

Has(trace, event) == \E i \in 1..Len(trace) : trace[i] = event

Count(trace, event) == Cardinality({i \in 1..Len(trace) : trace[i] = event})

\* the filters field of an envelope of executeQuery
EnvelopeFilters(envelope) ==
  IF envelope.success THEN envelope.metadata.filters ELSE envelope.filters

\* no entry of the filter set is null, undefined or ''
Cleaned(filters) ==
  \A key \in DOMAIN filters.o : filters.o[key] \notin {JNull, JUndef, JStr(<<>>)}

\* C1 as stated: when authorize rejects, executeQuery and executeQueryWithFilters
\* reject with the authorization error.
C1_AuthorizationErrorRejectsExecuteQuery ==
  \A p \in callers :
    (/\ calls[p].pc = "done"
     /\ IsExecuteQuery(calls[p])
     /\ Has(calls[p].trace, "getAuthorization:rejected"))
    => calls[p].outcome = Rejected(AuthorizationErrorMessage)

\* C1 as amended: when authorize rejects, executeQuery and executeQueryWithFilters
\* do not reject; they return the failure envelope with the message of the
\* authorization error, and the external query call is not made.
C1_AuthorizationErrorBecomesEnvelope ==
  \A p \in callers :
    (/\ calls[p].pc = "done"
     /\ IsExecuteQuery(calls[p])
     /\ Has(calls[p].trace, "getAuthorization:rejected"))
    => /\ calls[p].outcome.kind = "returned"
       /\ calls[p].outcome.value.success = FALSE
       /\ calls[p].outcome.value.error = "Failed to execute Data Cloud query"
       /\ calls[p].outcome.value.message = AuthorizationErrorMessage
       /\ calls[p].outcome.value.filters = calls[p].filters
       /\ ~Has(calls[p].trace, "query")

C1_Witness ==
  \E p \in callers :
    /\ calls[p].pc = "done"
    /\ calls[p].method = "executeQueryWithFilters"
    /\ calls[p].queryObject = unifiedB2BQuery
    /\ Has(calls[p].trace, "getAuthorization:rejected")
    /\ calls[p].outcome.kind = "returned"
    /\ calls[p].outcome.value.message = AuthorizationErrorMessage

\* the message of the error a finished call of executeQuery caught in SQL
\* resolution, in the external query call or in transform; "" when it caught none
LocalFailure(rec) ==
  LET resolved == ResolveQuery(rec.queryObject, rec.filters)
      data == IF rec.response # JUndef /\ Truthy(rec.response.data)
              THEN rec.response.data.a ELSE <<>>
      transformed == CallTransform(rec.queryObject.transform, data)
  IN IF Has(rec.trace, "getAuthorization:rejected") THEN ""
     ELSE IF ~resolved.ok THEN resolved.message
     ELSE IF Has(rec.trace, "query:rejected") THEN QueryErrorMessage
     ELSE IF Has(rec.trace, "query:resolved") /\ ~transformed.ok THEN transformed.message
     ELSE ""

\* C2: a failure of SQL resolution, of the external query call or of transform
\* does not reject executeQuery: the call returns the failure envelope with the
\* message of the error caught, the fallback query and the filters passed in,
\* and has logged the error once.
C2_LocalFailureBecomesEnvelope ==
  \A p \in callers :
    (/\ calls[p].pc = "done"
     /\ IsExecuteQuery(calls[p])
     /\ LocalFailure(calls[p]) # "")
    => /\ calls[p].outcome =
            Returned([success |-> FALSE,
                      error |-> "Failed to execute Data Cloud query",
                      message |-> LocalFailure(calls[p]),
                      query |-> FallbackQuery(calls[p].queryObject),
                      filters |-> calls[p].filters])
       /\ Count(calls[p].trace, "logger.error") = 1

C2_Witness ==
  \E p \in callers :
    /\ calls[p].pc = "done"
    /\ calls[p].method = "executeQuery"
    /\ Has(calls[p].trace, "transform")
    /\ calls[p].response = [data |-> JArr(<<JNull>>)]
    /\ calls[p].outcome.kind = "returned"
    /\ calls[p].outcome.value.success = FALSE
    /\ calls[p].outcome.value.message = "Cannot read properties of null (reading '0')"

\* C3: with one caller, whose calls follow each other, and every authorize call
\* resolving with a context, authorize has been invoked exactly once when the
\* second call (and any later one) has started.
C3_SequentialCallsAuthorizeOnce ==
  (started >= 2 /\ ~authFailed) => authCount = 1

C3_Witness ==
  /\ started = 2
  /\ ~authFailed
  /\ authCount = 1
  /\ calls[1].pc = "done"
  /\ calls[1].method = "executeQuery"
  /\ calls[1].authNo = 0
  /\ calls[1].dataCloudContext = Context(1)
  /\ calls[1].outcome.kind = "returned"
  /\ calls[1].outcome.value.success

\* C4 as stated: authorize is invoked at most once on an instance.
C4_AuthorizeAtMostOnce == authCount <= 1

\* C4 as amended: authorize is invoked only by a call that finds no context
\* cached, once by that call; while a context is cached no call invokes it.
C4_AuthorizeOnlyOnEmptyCache ==
  [][authCount' # authCount =>
       /\ ~Truthy(_dataCloudContext)
       /\ authCount' = authCount + 1]_vars

C4_Witness ==
  /\ authCount = 1
  /\ started = 2
  /\ _dataCloudContext = Context(1)
  /\ \E p \in callers :
       /\ calls[p].pc = "awaitQuery"
       /\ calls[p].authNo = 0
       /\ calls[p].dataCloudContext = Context(1)

\* C5: when a second executeQuery call starts while the authorize call of the
\* first is pending, it invokes authorize too (two invocations); the cache slot
\* holds what the authorize call that resolved last resolved with; and every
\* finished executeQuery call has returned an envelope.
C5_RacingCallsBothAuthorize ==
  [][/\ (/\ started = 1
         /\ started' = 2
         /\ \E p \in callers : calls[p].pc = "awaitAuth" /\ IsExecuteQuery(calls[p])
         /\ \E q \in callers : calls[q].pc = "idle" /\ IsExecuteQuery(calls'[q]))
        => (/\ authCount' = 2
            /\ \E p, q \in callers :
                 p # q /\ calls'[p].pc = "awaitAuth" /\ calls'[q].pc = "awaitAuth")
     /\ _dataCloudContext' = lastResolved'
     /\ \A p \in callers :
          (calls'[p].pc = "done" /\ IsExecuteQuery(calls'[p]))
          => (calls'[p].outcome.kind = "returned"
              /\ calls'[p].outcome.value.success \in BOOLEAN)]_vars

\* both calls authorized, the second call's authorize call resolved first and the
\* first call's last: the slot holds the first call's context
C5_Witness ==
  /\ started = 2
  /\ authCount = 2
  /\ _dataCloudContext = Context(1)
  /\ lastResolved = Context(1)
  /\ \A p \in {1, 2} :
       /\ calls[p].pc = "done"
       /\ calls[p].method = "executeQuery"
       /\ calls[p].authNo = p
       /\ calls[p].outcome.kind = "returned"
       /\ calls[p].outcome.value.success
  /\ calls[2].dataCloudContext = Context(2)

\* C6: in every success envelope of executeQuery, metadata.totalRecords is the
\* number of records, metadata.query the SQL passed to the external query call
\* and metadata.filters the filters argument.
C6_SuccessEnvelopeMetadata ==
  \A p \in callers :
    (/\ calls[p].pc = "done"
     /\ IsExecuteQuery(calls[p])
     /\ calls[p].outcome.kind = "returned"
     /\ calls[p].outcome.value.success)
    => /\ calls[p].outcome.value.metadata.totalRecords = Len(calls[p].outcome.value.records)
       /\ calls[p].sent.t = "string"
       /\ calls[p].outcome.value.metadata.query = calls[p].sent
       /\ calls[p].outcome.value.metadata.filters = calls[p].filters
       /\ calls[p].method = "executeQuery" => calls[p].filters = calls[p].rawFilters

C6_Witness ==
  \E p \in callers :
    /\ calls[p].pc = "done"
    /\ calls[p].method = "executeQuery"
    /\ calls[p].queryObject = unifiedB2BQuery
    /\ calls[p].rawFilters = JObj([accountName |-> JStr(<<"a", QUOTE>>)])
    /\ calls[p].outcome.kind = "returned"
    /\ calls[p].outcome.value.success
    /\ calls[p].outcome.value.metadata.totalRecords = 2
    /\ calls[p].outcome.value.metadata.query =
         JStr(<<baseSql, " WHERE ", "ssot__Name__c LIKE ", QUOTE, "%", "a", QUOTE, QUOTE,
                "%", QUOTE, " LIMIT 100">>)

\* C7 as stated: the filters field of every envelope of executeQuery and of
\* executeQueryWithFilters has no entry that is null, undefined or ''.
C7_EnvelopeFiltersAlwaysCleaned ==
  \A p \in callers :
    (/\ calls[p].pc = "done"
     /\ IsExecuteQuery(calls[p])
     /\ calls[p].outcome.kind = "returned")
    => Cleaned(EnvelopeFilters(calls[p].outcome.value))

\* C7 as amended: the filters field of every envelope of executeQueryWithFilters
\* has no entry that is null, undefined or '' and holds every other entry of
\* the raw filters; executeQuery reports the filters it was given as they are.
C7_WithFiltersEnvelopeCleaned ==
  \A p \in callers :
    (/\ calls[p].pc = "done"
     /\ IsExecuteQuery(calls[p])
     /\ calls[p].outcome.kind = "returned")
    => LET reported == EnvelopeFilters(calls[p].outcome.value)
           raw == calls[p].rawFilters
       IN IF calls[p].method = "executeQuery" THEN reported = raw
          ELSE /\ Cleaned(reported)
               /\ DOMAIN reported.o \subseteq DOMAIN raw.o
               /\ \A key \in DOMAIN raw.o :
                    raw.o[key] \notin {JNull, JUndef, JStr(<<>>)}
                    => (key \in DOMAIN reported.o /\ reported.o[key] = raw.o[key])

C7_Witness ==
  \E p \in callers :
    /\ calls[p].pc = "done"
    /\ calls[p].method = "executeQueryWithFilters"
    /\ calls[p].rawFilters =
         JObj([accountName |-> JStr(<<"a">>), accountSource |-> JStr(<<>>), segment |-> JNull])
    /\ calls[p].outcome.kind = "returned"
    /\ EnvelopeFilters(calls[p].outcome.value) = JObj([accountName |-> JStr(<<"a">>)])

\* what one character of the input becomes under the six rules
EscapedChar(c) ==
  CASE c = QUOTE -> <<QUOTE, QUOTE>>
    [] c = BACKSLASH -> <<BACKSLASH, BACKSLASH>>
    [] c = NUL -> <<>>
    [] c = LF -> <<BACKSLASH, "n">>
    [] c = CR -> <<BACKSLASH, "r">>
    [] c = SUB -> <<BACKSLASH, "Z">>
    [] OTHER -> <<c>>

RECURSIVE CharMap(_)
CharMap(s) == IF s = <<>> THEN <<>> ELSE EscapedChar(Head(s)) \o CharMap(Tail(s))

\* the string representation of the values that are not strings
Representation(v) ==
  CASE v = JNum(0) -> <<"0">>
    [] v = JNum(123) -> <<"1", "2", "3">>
    [] v = JBool(TRUE) -> <<"t", "r", "u", "e">>
    [] v = JBool(FALSE) -> <<"f", "a", "l", "s", "e">>
    [] v = JNull -> <<"n", "u", "l", "l">>
    [] v = JUndef -> <<"u", "n", "d", "e", "f", "i", "n", "e", "d">>
    [] v = JArr(<<>>) -> <<>>
    [] v = JArr(<<<<"a", QUOTE>>>>) -> <<"a", QUOTE>>
    [] v = JArr(<<<<"a">>, <<BACKSLASH>>>>) -> <<"a", ",", BACKSLASH>>

\* C11: the result of escapeSqlString on a string is the input with each
\* character mapped under the six rules (' doubled, \ doubled, NUL deleted,
\* LF, CR and 0x1A written \n, \r and \Z): no pass escapes again what an earlier
\* pass wrote; '' maps to ''; a value that is not a string maps to its string
\* representation, unescaped.
C11_EscapeIsCharacterwiseMapping ==
  (fn = "escapeSqlString" /\ ret.done) =>
    IF arg.t = "string"
    THEN /\ ret.v = CharMap(arg.s)
         /\ arg.s = <<>> => ret.v = <<>>
    ELSE ret.v = Representation(arg)

C11_Witness ==
  /\ fn = "escapeSqlString"
  /\ arg = JStr(<<LF, BACKSLASH, SUB>>)
  /\ ret.done
  /\ ret.v = <<BACKSLASH, "n", BACKSLASH, BACKSLASH, BACKSLASH, "Z">>

\* the index of the one occurrence of token in s
Pos(s, token) == CHOOSE i \in 1..Len(s) : s[i] = token

\* the column tests of the three filters, in the order buildQuery writes them
ConditionHeads ==
  <<[key |-> "accountName", head |-> "ssot__Name__c LIKE ", like |-> TRUE],
    [key |-> "accountSource", head |-> "ssot__AccountSource__c = ", like |-> FALSE],
    [key |-> "segment", head |-> "ssot__AccountTypeId__c = ", like |-> FALSE]>>

\* C12: the query buildQuery returns has one condition for each present filter
\* and none for an absent one, in the order accountName, accountSource, segment
\* whatever the order of the keys of the filter object; the first follows the
\* one ' WHERE ', each other one follows an ' AND ', each is its column test and
\* a quoted literal ('%...%' for accountName); without a present filter there is
\* no WHERE clause.
C12_OneConditionPerPresentFilterInFixedOrder ==
  (fn = "buildQuery" /\ ret.done) =>
    LET q == ret.v
        filters == IF arg = JUndef THEN JObj(<<>>) ELSE arg
        present == {k \in 1..3 : Truthy(Get(filters, ConditionHeads[k].key))}
        start(k) == Pos(q, ConditionHeads[k].head)
        \* where the condition of k ends: before the next ' AND ', or before ' LIMIT 100'
        end(k) == IF \E j \in present : j > k
                  THEN start(CHOOSE j \in present : j > k /\ \A i \in present : i > k => j <= i) - 2
                  ELSE Len(q) - 1
    IN /\ Count(q, " WHERE ") = (IF present = {} THEN 0 ELSE 1)
       /\ Count(q, " AND ") = (IF present = {} THEN 0 ELSE Cardinality(present) - 1)
       /\ \A k \in 1..3 : Count(q, ConditionHeads[k].head) = (IF k \in present THEN 1 ELSE 0)
       /\ \A j, k \in present : j < k => start(j) < start(k)
       /\ \A k \in present :
            /\ q[start(k) - 1] = (IF \A j \in present : k <= j THEN " WHERE " ELSE " AND ")
            /\ q[start(k) + 1] = QUOTE
            /\ q[end(k)] = QUOTE
            /\ end(k) >= start(k) + 2
            /\ ConditionHeads[k].like =>
                 /\ q[start(k) + 2] = "%"
                 /\ q[end(k) - 1] = "%"
                 /\ end(k) >= start(k) + 4
       /\ present # {} => q[2] = " WHERE "
       /\ present = {} => q = <<baseSql, " LIMIT 100">>

C12_Witness ==
  /\ fn = "buildQuery"
  /\ arg = JObjOrdered([accountName |-> JStr(<<"a">>), accountSource |-> JStr(<<"a">>),
                        segment |-> JStr(<<"a">>)],
                       <<"segment", "accountSource", "accountName">>)
  /\ ret.done
  /\ ret.v = <<baseSql, " WHERE ", "ssot__Name__c LIKE ", QUOTE, "%", "a", "%", QUOTE,
               " AND ", "ssot__AccountSource__c = ", QUOTE, "a", QUOTE,
               " AND ", "ssot__AccountTypeId__c = ", QUOTE, "a", QUOTE, " LIMIT 100">>

\* C13: every query buildQuery returns starts with baseSql and ends with the one
\* ' LIMIT 100' it holds; called without argument, with undefined or with an
\* empty filter set it returns baseSql followed by ' LIMIT 100' and nothing else.
C13_BaseSqlFirstLimitLastOnce ==
  (fn = "buildQuery" /\ ret.done) =>
    /\ Len(ret.v) >= 2
    /\ ret.v[1] = baseSql
    /\ ret.v[Len(ret.v)] = " LIMIT 100"
    /\ Count(ret.v, " LIMIT 100") = 1
    /\ Count(ret.v, baseSql) = 1
    /\ (arg = JUndef \/ DOMAIN arg.o = {}) => ret.v = <<baseSql, " LIMIT 100">>

C13_Witness ==
  /\ fn = "buildQuery"
  /\ arg = JUndef
  /\ ret.done
  /\ ret.v = <<baseSql, " LIMIT 100">>

\* the fields of a record of either transform, by the position each is read from
FieldsInSelectOrder(name) ==
  IF name = "unifiedB2BQuery"
  THEN <<"name", "number", "accountSource", "accountTypeId", "createdDate",
         "lastModifiedDate", "parentAccountId", "id">>
  ELSE <<"clientSession", "createdDate", "entityType", "eventIdentifier", "eventName">>

\* C14: given rows that are arrays, either transform returns as many records as
\* there are rows, record i holding under each name the value at that name's
\* position of row i (undefined past the end of the row) and nothing else.
C14_TransformIsOneToOneInSelectOrder ==
  (fn \in TransformNames /\ ret.done /\ \A i \in 1..Len(arg.a) : arg.a[i].t = "array") =>
    LET fields == FieldsInSelectOrder(fn)
    IN /\ ret.v.ok
       /\ Len(ret.v.v) = Len(arg.a)
       /\ \A i \in 1..Len(arg.a) :
            /\ DOMAIN ret.v.v[i] = {fields[k] : k \in 1..Len(fields)}
            /\ \A k \in 1..Len(fields) :
                 ret.v.v[i][fields[k]] =
                   (IF k <= Len(arg.a[i].a) THEN arg.a[i].a[k] ELSE JUndef)

C14_Witness ==
  /\ fn = "unifiedB2BQuery"
  /\ arg = JArr(<<rowB, rowA>>)
  /\ ret.done
  /\ ret.v.ok
  /\ Len(ret.v.v) = 2
  /\ ret.v.v[1].name = JStr(<<"s">>)
  /\ ret.v.v[1].lastModifiedDate = JUndef
  /\ ret.v.v[2].createdDate = JStr(<<"d1">>)
  /\ ret.v.v[2].id = JStr(<<"ID1">>)

\* the percent-encoding of the values of the params
PercentEncoded(value) ==
  CASE value = JStr(<<"a", " ", "&", "!", "<E9>", "=">>) ->
         <<"a", "%", "2", "0", "%", "2", "6", "!", "%", "C", "3", "%", "A", "9", "%", "3", "D">>
    [] value = JNum(0) -> <<"0">>

\* the keys of params whose value is not undefined, null or ''
KeptKeys(params) ==
  {key \in DOMAIN params.o : params.o[key] \notin {JUndef, JNull, JStr(<<>>)}}

\* the text made of the base parameters and of a key=value segment for each of
\* the keys in order, with & between them
QueryString(base, params, order) ==
  Join(base \o [i \in 1..Len(order) |->
                  <<order[i], "=">> \o PercentEncoded(params.o[order[i]])],
       <<"&">>)

\* the keys of K in the order of their insertion into params
InsertionOrder(params, K) ==
  CHOOSE order \in Orders(K) :
    \A i, j \in 1..Len(order) :
      i < j => \E m, n \in 1..Len(params.keys) :
                 m < n /\ params.keys[m] = order[i] /\ params.keys[n] = order[j]

\* the keys of K as Object.entries lists them: array indices first, ascending,
\* then the other keys in the order of their insertion
EntriesOrder(params, K) ==
  CHOOSE order \in Orders(K) :
    \A i, j \in 1..Len(order) :
      i < j =>
        \/ IndexOf(order[i]) >= 0 /\ IndexOf(order[j]) >= 0 /\ IndexOf(order[i]) < IndexOf(order[j])
        \/ IndexOf(order[i]) >= 0 /\ IndexOf(order[j]) < 0
        \/ /\ IndexOf(order[i]) < 0
           /\ IndexOf(order[j]) < 0
           /\ \E m, n \in 1..Len(params.keys) :
                m < n /\ params.keys[m] = order[i] /\ params.keys[n] = order[j]

ExecuteQueryOnCleaned(rec) ==
  LET cleaned == cleanFilters(rec.rawFilters)
      start == [Idle EXCEPT !.method = "executeQuery",
                            !.queryObject = rec.queryObject,
                            !.rawFilters = cleaned,
                            !.filters = cleaned]
      entered == [start EXCEPT !.pc = "awaitAuth",
                               !.authNo = rec.authNo,
                               !.trace = <<"logger.info:connection", "getAuthorization">>]
      afterContext ==
        IF rec.authNo = 0 THEN AfterContext(start, Ok(rec.dataCloudContext))
        ELSE IF Has(rec.trace, "getAuthorization:rejected")
             THEN AfterContext([entered EXCEPT !.trace = @ \o <<"getAuthorization:rejected">>],
                               Throw(AuthorizationErrorMessage))
        ELSE AfterContext([entered EXCEPT !.trace = @ \o <<"getAuthorization:resolved">>],
                          Ok(rec.dataCloudContext))
  IN IF afterContext.pc # "awaitQuery" THEN afterContext
     ELSE IF Has(rec.trace, "query:rejected")
          THEN Catch([afterContext EXCEPT !.trace = @ \o <<"query:rejected">>], QueryErrorMessage)
     ELSE AfterQuery([afterContext EXCEPT !.trace = @ \o <<"query:resolved">>], rec.response)

\* C16: a finished call executeQueryWithFilters(queryObject, rawFilters) has the
\* result, the external calls and the SQL sent that
\* executeQuery(queryObject, cleanFilters(rawFilters)) has under the same
\* outcomes of the external calls; the filters buildQuery was given are the
\* cleaned ones.
C16_WithFiltersIsExecuteQueryOnCleaned ==
  \A p \in callers :
    (calls[p].pc = "done" /\ calls[p].method = "executeQueryWithFilters") =>
      LET twin == ExecuteQueryOnCleaned(calls[p])
          resolved == ResolveQuery(calls[p].queryObject, cleanFilters(calls[p].rawFilters))
      IN /\ twin.pc = "done"
         /\ calls[p].outcome = twin.outcome
         /\ calls[p].trace = twin.trace
         /\ calls[p].sent = twin.sent
         /\ calls[p].filters = cleanFilters(calls[p].rawFilters)
         /\ Has(calls[p].trace, "query") => (resolved.ok /\ calls[p].sent = JStr(resolved.v))

C16_Witness ==
  \E p \in callers :
    /\ calls[p].pc = "done"
    /\ calls[p].method = "executeQueryWithFilters"
    /\ calls[p].queryObject = unifiedB2BQuery
    /\ calls[p].rawFilters =
         JObj([accountName |-> JStr(<<"a">>), accountSource |-> JStr(<<>>), segment |-> JNull])
    /\ calls[p].sent =
         JStr(<<baseSql, " WHERE ", "ssot__Name__c LIKE ", QUOTE, "%", "a", "%", QUOTE,
                " LIMIT 100">>)
    /\ calls[p].outcome.kind = "returned"
    /\ calls[p].outcome.value.success
    /\ calls[p].outcome.value.metadata.filters = JObj([accountName |-> JStr(<<"a">>)])

\* the rows of a response: response.data, or no row when it has no data
Rows(response) == IF response.data.t = "array" THEN response.data.a ELSE <<>>

\* C17: executeRawQuery does not reject; the SQL it sends to the external query
\* call is the sql it was given; its success envelope is {success, records,
\* metadata: {totalRecords, query, executedAt}} without filters key, records
\* being transformFn(rows) when a transformFn was given and the rows otherwise,
\* totalRecords their number and query the sql; its failure envelope holds the
\* sql as query.
C17_ExecuteRawQueryEnvelope ==
  \A p \in callers :
    (calls[p].pc = "done" /\ calls[p].method = "executeRawQuery") =>
      LET rec == calls[p]
          envelope == rec.outcome.value
      IN /\ rec.outcome.kind = "returned"
         /\ Has(rec.trace, "query") => rec.sent = rec.sql
         /\ Count(rec.trace, "query") <= 1
         /\ IF envelope.success
            THEN /\ DOMAIN envelope = {"success", "records", "metadata"}
                 /\ DOMAIN envelope.metadata = {"totalRecords", "query", "executedAt"}
                 /\ envelope.records =
                      (IF rec.transformFn = "none" THEN Rows(rec.response)
                       ELSE [i \in 1..Len(Rows(rec.response)) |->
                               [clientSession |-> Rows(rec.response)[i].a[1],
                                createdDate |-> Rows(rec.response)[i].a[2],
                                entityType |-> Rows(rec.response)[i].a[3],
                                eventIdentifier |-> Rows(rec.response)[i].a[4],
                                eventName |-> Rows(rec.response)[i].a[5]]])
                 /\ envelope.metadata.totalRecords = Len(envelope.records)
                 /\ envelope.metadata.query = rec.sql
            ELSE /\ envelope.success = FALSE
                 /\ envelope.query = rec.sql
                 /\ envelope.error = "Failed to execute raw Data Cloud query"

C17_Witness ==
  \E p \in callers :
    /\ calls[p].pc = "done"
    /\ calls[p].method = "executeRawQuery"
    /\ calls[p].transformFn = "userEngagementQuery"
    /\ calls[p].response = [data |-> JArr(<<rowA, rowB>>)]
    /\ calls[p].sent = JStr(<<mockSql>>)
    /\ calls[p].outcome.kind = "returned"
    /\ calls[p].outcome.value.success
    /\ calls[p].outcome.value.metadata.totalRecords = 2
    /\ calls[p].outcome.value.records[2].eventName = JStr(<<"n">>)

\* the fallback query of each query object: buildQuery() of those that have a
\* buildQuery method ('Query build failed' for the one whose buildQuery throws
\* without argument), otherwise the sql, which one of them has not
ExpectedFallbackQuery(queryObject) ==
  CASE queryObject = unifiedB2BQuery -> JStr(<<baseSql, " LIMIT 100">>)
    [] queryObject = bothQueryObject -> JStr(<<baseSql, " LIMIT 100">>)
    [] queryObject = mockQueryObjectWithBuildQuery -> JStr(<<"Query build failed">>)
    [] queryObject = userEngagementQuery -> JStr(<<userEngagementSql>>)
    [] queryObject = mockQueryObject -> JStr(<<mockSql>>)
    [] queryObject = emptyQueryObject -> JUndef

\* a finished call of executeQuery that returned a failure envelope
Failed(rec) ==
  /\ rec.pc = "done"
  /\ IsExecuteQuery(rec)
  /\ rec.outcome.kind = "returned"
  /\ ~rec.outcome.value.success

\* C18 as stated: the query field of every failure envelope of executeQuery is
\* buildQuery() when the definition has a buildQuery method, otherwise its sql,
\* 'Query build failed' when that fails, and it is always a string.
C18_FallbackQueryAlwaysString ==
  \A p \in callers :
    Failed(calls[p]) =>
      /\ calls[p].outcome.value.query = ExpectedFallbackQuery(calls[p].queryObject)
      /\ calls[p].outcome.value.query.t = "string"

\* C18 as amended: the query field is buildQuery() when the definition has a
\* buildQuery method, 'Query build failed' when that call throws, otherwise the
\* definition's sql; it is a string when the definition has a buildQuery method
\* or an sql, and undefined when it has neither.
C18_FallbackQueryStringUnlessNeither ==
  \A p \in callers :
    Failed(calls[p]) =>
      LET queryObject == calls[p].queryObject
          query == calls[p].outcome.value.query
      IN /\ query = ExpectedFallbackQuery(queryObject)
         /\ IF queryObject.buildQuery = "none" /\ ~Truthy(queryObject.sql)
            THEN query = JUndef
            ELSE query.t = "string"

C18_Witness ==
  \E p \in callers :
    /\ Failed(calls[p])
    /\ calls[p].queryObject = mockQueryObjectWithBuildQuery
    /\ Has(calls[p].trace, "query:rejected")
    /\ calls[p].outcome.value.message = QueryErrorMessage
    /\ calls[p].outcome.value.query = JStr(<<"Query build failed">>)

\* C19: a value executeQuery, executeQueryWithFilters or executeRawQuery returns
\* is either a success envelope (success true, with records and metadata,
\* without error and message) or a failure envelope (success false, with error
\* and message, without records and metadata).
C19_EnvelopeIsSuccessOrFailure ==
  \A p \in callers :
    (/\ calls[p].pc = "done"
     /\ calls[p].method \in {"executeQuery", "executeQueryWithFilters", "executeRawQuery"}
     /\ calls[p].outcome.kind = "returned")
    => LET envelope == calls[p].outcome.value
       IN /\ "success" \in DOMAIN envelope
          /\ envelope.success \in BOOLEAN
          /\ IF envelope.success
             THEN /\ {"records", "metadata"} \subseteq DOMAIN envelope
                  /\ {"error", "message"} \cap DOMAIN envelope = {}
             ELSE /\ {"error", "message"} \subseteq DOMAIN envelope
                  /\ {"records", "metadata"} \cap DOMAIN envelope = {}

\* a transformFn that throws on the second row: no record of the first row is returned
C19_Witness ==
  \E p \in callers :
    /\ calls[p].pc = "done"
    /\ calls[p].method = "executeRawQuery"
    /\ calls[p].transformFn = "userEngagementQuery"
    /\ calls[p].response = [data |-> JArr(<<rowA, JNull>>)]
    /\ calls[p].outcome.kind = "returned"
    /\ DOMAIN calls[p].outcome.value = {"success", "error", "message", "query"}
    /\ calls[p].outcome.value.success = FALSE

\* C20: for a string that holds a quote, a backslash, a line feed, a carriage
\* return or 0x1A, escapeSqlString applied to the result of escapeSqlString
\* gives a string other than that result.
C20_EscapeTwiceDiffersFromOnce ==
  (/\ fn = "escapeSqlString"
   /\ arg.t = "string"
   /\ ret.done
   /\ "again" \in DOMAIN ret
   /\ \E i \in 1..Len(arg.s) : arg.s[i] \in {QUOTE, BACKSLASH, LF, CR, SUB})
  => ret.again # ret.v

C20_Witness ==
  /\ fn = "escapeSqlString"
  /\ arg = JStr(<<LF>>)
  /\ ret.done
  /\ "again" \in DOMAIN ret
  /\ ret.v = <<BACKSLASH, "n">>
  /\ ret.again = <<BACKSLASH, BACKSLASH, "n">>

\* C21: the SQL executeQuery sends is buildQuery(filters) when the definition
\* has a buildQuery method, whether or not it has an sql as well; it is the sql
\* of the definition only when the definition has no buildQuery method.
C21_BuildQueryBeforeSql ==
  \A p \in callers :
    (IsExecuteQuery(calls[p]) /\ Has(calls[p].trace, "query")) =>
      LET queryObject == calls[p].queryObject
      IN /\ queryObject.buildQuery = "unifiedB2BQuery" =>
              calls[p].sent = JStr(buildQuery(calls[p].filters))
         /\ queryObject.buildQuery = "mock" =>
              calls[p].sent = JStr(mockBuildQuery(calls[p].filters).v)
         /\ queryObject.buildQuery = "none" => calls[p].sent = queryObject.sql
         /\ calls[p].sent = queryObject.sql => queryObject.buildQuery = "none"

C21_Witness ==
  \E p \in callers :
    /\ calls[p].pc = "done"
    /\ calls[p].method = "executeQuery"
    /\ calls[p].queryObject = bothQueryObject
    /\ calls[p].filters = JObj([accountName |-> JStr(<<"a", QUOTE>>)])
    /\ calls[p].sent =
         JStr(<<baseSql, " WHERE ", "ssot__Name__c LIKE ", QUOTE, "%", "a", QUOTE, QUOTE,
                "%", QUOTE, " LIMIT 100">>)
    /\ calls[p].outcome.kind = "returned"
    /\ calls[p].outcome.value.success
    /\ calls[p].outcome.value.metadata.query = calls[p].sent

InvalidQueryObjectMessage == "Query object must have either sql property or buildQuery method"

\* a finished call of executeQuery on a definition with neither buildQuery nor sql
FinishedOnNeither(rec) ==
  /\ rec.pc = "done"
  /\ IsExecuteQuery(rec)
  /\ rec.queryObject.buildQuery = "none"
  /\ ~Truthy(rec.queryObject.sql)

\* C22 as stated: executeQuery on a definition with neither a buildQuery method
\* nor an sql invokes neither the external query call nor transform and returns
\* a failure envelope whose message says that the definition must have one.
C22_NeitherAlwaysReportsInvalidDefinition ==
  \A p \in callers :
    FinishedOnNeither(calls[p]) =>
      /\ ~Has(calls[p].trace, "query")
      /\ ~Has(calls[p].trace, "transform")
      /\ calls[p].outcome.kind = "returned"
      /\ calls[p].outcome.value.success = FALSE
      /\ calls[p].outcome.value.message = InvalidQueryObjectMessage

\* C22 as amended: such a call invokes neither the external query call nor
\* transform and returns a failure envelope; its message says that the
\* definition must have either sql or buildQuery when the context was obtained,
\* and is the message of the authorization error when authorize rejected.
C22_NeitherReportsInvalidDefinitionOnceAuthorized ==
  \A p \in callers :
    FinishedOnNeither(calls[p]) =>
      /\ ~Has(calls[p].trace, "query")
      /\ ~Has(calls[p].trace, "transform")
      /\ calls[p].outcome.kind = "returned"
      /\ calls[p].outcome.value.success = FALSE
      /\ calls[p].outcome.value.message =
           (IF Has(calls[p].trace, "getAuthorization:rejected")
            THEN AuthorizationErrorMessage ELSE InvalidQueryObjectMessage)

C22_Witness ==
  \E p \in callers :
    /\ FinishedOnNeither(calls[p])
    /\ calls[p].method = "executeQuery"
    /\ Has(calls[p].trace, "getAuthorization:resolved")
    /\ calls[p].dataCloudContext = Context(1)
    /\ calls[p].outcome.kind = "returned"
    /\ calls[p].outcome.value.message = InvalidQueryObjectMessage
    /\ calls[p].outcome.value.query = JUndef

\* the place of each step in a call of executeQuery
Rank(event) ==
  CASE event = "logger.info:connection" -> 1
    [] event = "getAuthorization" -> 2
    [] event \in {"getAuthorization:resolved", "getAuthorization:rejected"} -> 3
    [] event = "resolveQuery" -> 4
    [] event = "logger.info:query" -> 5
    [] event = "query" -> 6
    [] event \in {"query:resolved", "query:rejected"} -> 7
    [] event = "transform" -> 8
    [] event = "logger.error" -> 9

\* the steps of one call of executeQuery so far are in their order, the query is
\* not sent before the SQL is resolved and logged and a pending authorize call has
\* resolved, transform is not called unless the query resolved, and the envelope
\* is there when the call has finished and not before
StepsInOrder(rec) ==
  /\ \A i, j \in 1..Len(rec.trace) : i < j => Rank(rec.trace[i]) < Rank(rec.trace[j])
  /\ Has(rec.trace, "resolveQuery") =>
       /\ ~Has(rec.trace, "getAuthorization:rejected")
       /\ Has(rec.trace, "getAuthorization") => Has(rec.trace, "getAuthorization:resolved")
  /\ Has(rec.trace, "logger.info:query") => Has(rec.trace, "resolveQuery")
  /\ Has(rec.trace, "query") => Has(rec.trace, "logger.info:query")
  /\ Has(rec.trace, "transform") => Has(rec.trace, "query:resolved")
  /\ rec.outcome.kind # "none" <=> rec.pc = "done"
  /\ (rec.pc = "done" /\ rec.outcome.kind = "returned" /\ rec.outcome.value.success)
       => Has(rec.trace, "transform")

\* C23: in every call of executeQuery the steps come in the order context
\* (authorize only when nothing is cached), SQL resolution, log of the query,
\* external query call, transform, envelope; the query is not sent before
\* authorize has resolved and transform is not called unless the query resolved.
C23_StepsOfExecuteQueryInOrder ==
  /\ [](\A p \in callers : IsExecuteQuery(calls[p]) => StepsInOrder(calls[p]))
  /\ [][\A p \in callers :
          (calls[p].pc = "idle" /\ IsExecuteQuery(calls'[p]))
          => (Has(calls'[p].trace, "getAuthorization") <=> ~Truthy(_dataCloudContext))]_vars

C23_Witness ==
  \E p \in callers :
    /\ calls[p].pc = "done"
    /\ calls[p].method = "executeQuery"
    /\ calls[p].trace =
         <<"logger.info:connection", "getAuthorization", "getAuthorization:resolved",
           "resolveQuery", "logger.info:query", "query", "query:resolved", "transform">>
    /\ calls[p].outcome.kind = "returned"
    /\ calls[p].outcome.value.success

\* C24: no retries: within one call of executeQuery or executeRawQuery authorize
\* is invoked at most once and the external query call is invoked at most once,
\* whether they resolve or reject.
C24_NoRetries ==
  \A p \in callers :
    calls[p].method \in {"executeQuery", "executeRawQuery"}
    => /\ Count(calls[p].trace, "getAuthorization") <= 1
       /\ Count(calls[p].trace, "query") <= 1
       /\ Count(calls[p].trace, "getAuthorization:resolved")
            + Count(calls[p].trace, "getAuthorization:rejected") <= 1
       /\ Count(calls[p].trace, "query:resolved")
            + Count(calls[p].trace, "query:rejected") <= 1

\* a call whose authorize resolved and whose query rejected has finished
C24_Witness ==
  \E p \in callers :
    /\ calls[p].pc = "done"
    /\ calls[p].method \in {"executeQuery", "executeRawQuery"}
    /\ Count(calls[p].trace, "getAuthorization") = 1
    /\ Has(calls[p].trace, "getAuthorization:resolved")
    /\ Count(calls[p].trace, "query") = 1
    /\ Has(calls[p].trace, "query:rejected")

\* C25: cleanFilters returns a newly created mapping and leaves its input
\* unchanged: after the call the object passed in has the keys and values it had
\* before, the dropped entries included, and the result is another object.
C25_CleanFiltersLeavesInputAlone ==
  (fn = "cleanFilters" /\ ret.done) =>
    /\ ret.ref # 1
    /\ ret.heap[1] = arg
    /\ ret.heap[ret.ref] = ret.v

\* a call that dropped an entry
C25_Witness ==
  /\ fn = "cleanFilters"
  /\ ret.done
  /\ \E key \in DOMAIN arg.o : key \notin DOMAIN ret.v.o
  /\ \E key \in DOMAIN arg.o : key \in DOMAIN ret.v.o
  /\ ret.heap[1] = arg

\* a call of executeQuery or executeRawQuery that awaits an external call
Awaiting(p) ==
  /\ p \in callers
  /\ calls[p].method \in {"executeQuery", "executeQueryWithFilters", "executeRawQuery"}
  /\ calls[p].pc \in {"awaitAuth", "awaitQuery"}

\* a call has not gone past an external call that has not settled
NotPastPending(rec) ==
  /\ (rec.pc # "awaitAuth" /\ Has(rec.trace, "getAuthorization"))
       => \/ Has(rec.trace, "getAuthorization:resolved")
          \/ Has(rec.trace, "getAuthorization:rejected")
  /\ (rec.pc # "awaitQuery" /\ Has(rec.trace, "query"))
       => \/ Has(rec.trace, "query:resolved")
          \/ Has(rec.trace, "query:rejected")

\* C26: when every external call (authorize, query) settles, every call of
\* executeQuery and executeRawQuery returns at some time; and a call returns only
\* after the external calls it made have settled, so that one that never settles
\* leaves the call that awaits it pending for ever.
C26_ReturnsWhenExternalCallsSettle ==
  /\ \A p \in 1..MaxCallers : Awaiting(p) ~> (p \in callers /\ calls[p].pc = "done")
  /\ [](\A p \in 1..MaxCallers :
          (p \in callers /\ calls[p].pc # "idle") => NotPastPending(calls[p]))

\* a call that has returned after its authorize and its query resolved
C26_Witness ==
  \E p \in callers :
    /\ calls[p].pc = "done"
    /\ calls[p].method \in {"executeQuery", "executeQueryWithFilters", "executeRawQuery"}
    /\ Has(calls[p].trace, "getAuthorization:resolved")
    /\ Has(calls[p].trace, "query:resolved")
    /\ calls[p].outcome.kind = "returned"

\* C27: a failure of the external query call or of transform leaves the cached
\* context unchanged: the step in which a query settles does not touch the slot,
\* a slot that holds a context while no authorize call is pending keeps it and
\* authorize is not invoked, and a call that starts on a cached context uses it
\* without invoking authorize, whatever queries failed before.
C27_FailedQueryKeepsContext ==
  /\ [][\A p \in 1..MaxCallers :
          (p \in callers /\ calls[p].pc = "awaitQuery" /\ calls'[p].pc # "awaitQuery")
          => _dataCloudContext' = _dataCloudContext]_vars
  /\ [][(/\ Truthy(_dataCloudContext)
         /\ \A p \in callers : calls[p].pc # "awaitAuth")
        => /\ _dataCloudContext' = _dataCloudContext
           /\ authCount' = authCount]_vars
  /\ [][\A p \in 1..MaxCallers :
          (/\ p \in callers
           /\ calls[p].pc = "idle"
           /\ calls'[p].pc # "idle"
           /\ Truthy(_dataCloudContext))
          => /\ authCount' = authCount
             /\ ~Has(calls'[p].trace, "getAuthorization")
             /\ calls'[p].method # "getDataCloudContext"
                  => calls'[p].dataCloudContext = _dataCloudContext]_vars

\* after a first call authorized and a query or a transform failed, a later call
\* has sent its query on the context of the first call, without authorize
C27_Witness ==
  /\ queryFailed
  /\ authCount = 1
  /\ _dataCloudContext = Context(1)
  /\ started = MaxCalls
  /\ \E p \in callers :
       /\ calls[p].pc = "awaitQuery"
       /\ calls[p].authNo = 0
       /\ calls[p].dataCloudContext = Context(1)

\* C28: a rejected authorize call is not cached: the step in which authorize
\* rejects leaves the slot as it was, without a context, as does the step in
\* which authorize resolves with an empty value; and a call of
\* getDataCloudContext, executeQuery or executeRawQuery that starts on a slot
\* without a context invokes authorize.
C28_RejectedAuthorizeNotCached ==
  /\ [][\A p \in 1..MaxCallers :
          (/\ p \in callers
           /\ calls[p].pc = "awaitAuth"
           /\ Has(calls'[p].trace, "getAuthorization:rejected"))
          => /\ _dataCloudContext' = _dataCloudContext
             /\ ~Truthy(_dataCloudContext')]_vars
  /\ [][\A p \in 1..MaxCallers :
          (/\ p \in callers
           /\ calls[p].pc = "awaitAuth"
           /\ Has(calls'[p].trace, "getAuthorization:resolved")
           /\ ~Truthy(lastResolved'))
          => ~Truthy(_dataCloudContext')]_vars
  /\ [][\A p \in 1..MaxCallers :
          (/\ p \in callers
           /\ calls[p].pc = "idle"
           /\ calls'[p].pc # "idle"
           /\ ~Truthy(_dataCloudContext))
          => /\ authCount' = authCount + 1
             /\ calls'[p].pc = "awaitAuth"
             /\ calls'[p].authNo = authCount + 1
             /\ Has(calls'[p].trace, "getAuthorization")]_vars

\* after the authorize call of a first call was rejected, a second call has
\* invoked authorize again
C28_Witness ==
  /\ authRejected
  /\ lastResolved = JNull
  /\ _dataCloudContext = JNull
  /\ authCount = 2
  /\ started = 2
  /\ \E p \in callers :
       /\ calls[p].pc = "awaitAuth"
       /\ calls[p].authNo = 2

\* a call of executeQueryWithFilters with unifiedB2BQuery that returned a success envelope
SucceededOnUnifiedB2B(rec) ==
  /\ rec.pc = "done"
  /\ rec.method = "executeQueryWithFilters"
  /\ rec.queryObject = unifiedB2BQuery
  /\ rec.outcome.kind = "returned"
  /\ rec.outcome.value.success

\* the query holds the condition of the filter key
HasCondition(query, key) ==
  \E i \in 1..Len(ConditionHeads) :
    ConditionHeads[i].key = key /\ Has(query.s, ConditionHeads[i].head)

\* C29 as stated: in the success envelope of executeQueryWithFilters with
\* unifiedB2BQuery, each of accountName, accountSource and segment is a key of
\* metadata.filters if and only if metadata.query holds its condition.
C29_ReportedFiltersAreTheConditions ==
  \A p \in callers :
    SucceededOnUnifiedB2B(calls[p]) =>
      LET metadata == calls[p].outcome.value.metadata
      IN \A key \in FilterKeys :
           key \in DOMAIN metadata.filters.o <=> HasCondition(metadata.query, key)

\* C29 as amended: metadata.query is the query that was sent, metadata.filters is
\* the cleaned filter set, and metadata.query holds the condition of a filter if
\* and only if it is a key of metadata.filters with a truthy value: a key kept
\* with 0 or false is reported and has no condition.
C29_TruthyReportedFiltersAreTheConditions ==
  \A p \in callers :
    SucceededOnUnifiedB2B(calls[p]) =>
      LET metadata == calls[p].outcome.value.metadata
      IN /\ metadata.query = calls[p].sent
         /\ metadata.filters = cleanFilters(calls[p].rawFilters)
         /\ \A key \in FilterKeys :
              (key \in DOMAIN metadata.filters.o /\ Truthy(metadata.filters.o[key]))
              <=> HasCondition(metadata.query, key)

\* a success whose reported filters hold accountSource with 0, without condition,
\* and segment, with its condition
C29_Witness ==
  \E p \in callers :
    /\ SucceededOnUnifiedB2B(calls[p])
    /\ Get(calls[p].outcome.value.metadata.filters, "accountSource") = JNum(0)
    /\ ~HasCondition(calls[p].outcome.value.metadata.query, "accountSource")
    /\ "segment" \in DOMAIN calls[p].outcome.value.metadata.filters.o
    /\ HasCondition(calls[p].outcome.value.metadata.query, "segment")

\* a finished call of executeQuery whose query was rejected
FailedOnRejectedQuery(rec) ==
  /\ Failed(rec)
  /\ Has(rec.trace, "query:rejected")

\* the filters of the call make unifiedB2BQuery.buildQuery add no condition
NoConditionFor(filters) ==
  \A key \in FilterKeys : ~Truthy(Get(filters, key))

\* C30 as stated: when the external query call rejects, the query field of the
\* failure envelope of executeQuery is the SQL that was passed to the external
\* query call, for every definition and filter set.
C30_FailureQueryIsTheQuerySent ==
  \A p \in callers :
    FailedOnRejectedQuery(calls[p]) => calls[p].outcome.value.query = calls[p].sent

\* C30 as amended: when the external query call rejects, the query field is the
\* fallback query, built without the filters of the call; it is the SQL that was
\* sent when the definition has no buildQuery method (its sql was sent), and
\* when its buildQuery is that of unifiedB2BQuery and no filter of the call adds
\* a condition; otherwise it is another text than the SQL that was sent.
C30_FailureQueryIsTheQuerySentWithoutFilters ==
  \A p \in callers :
    FailedOnRejectedQuery(calls[p]) =>
      LET queryObject == calls[p].queryObject
          query == calls[p].outcome.value.query
      IN /\ query.t = "string"
         /\ calls[p].sent.t = "string"
         /\ query = calls[p].sent
              <=> \/ queryObject.buildQuery = "none"
                  \/ /\ queryObject.buildQuery = "unifiedB2BQuery"
                     /\ NoConditionFor(calls[p].filters)
         /\ queryObject.buildQuery = "unifiedB2BQuery"
              => query = JStr(<<baseSql, " LIMIT 100">>)

\* a rejected query of unifiedB2BQuery that had a WHERE clause, reported without it
C30_Witness ==
  \E p \in callers :
    /\ FailedOnRejectedQuery(calls[p])
    /\ calls[p].queryObject = unifiedB2BQuery
    /\ Has(calls[p].sent.s, " WHERE ")
    /\ calls[p].outcome.value.query = JStr(<<baseSql, " LIMIT 100">>)
    /\ calls[p].outcome.value.query # calls[p].sent

====
